---- MODULE Spec2Model ----
(***************************************************************************)
(* The transaction-and-inventory engine of the point-of-sale backend:      *)
(* createTransaction and updateTransactionStatus over the products,        *)
(* transactions and transaction_items tables.                              *)
(*                                                                         *)
(* Money.  A JavaScript number is modelled as an integer count of          *)
(* 1/10000 currency units, a numeric(10,2) column as an integer count of   *)
(* cents.  parseFloat of a column is ParseFloat, and storing a number in   *)
(* a numeric(10,2) column is ToNumeric2, which rounds half away from zero  *)
(* as PostgreSQL does.  With whole-number percentages every product and    *)
(* quotient the handler forms is exact in these units.  The handler's      *)
(* numbers are doubles, though, and a double can lie on the other side of  *)
(* half a cent than the exact amount: SpecDoubles computes the rows in     *)
(* binary64, and ExactWherePriced tells that on the prices, discounts and  *)
(* payments of SpecAmounts the two computations give the same rows.        *)
(***************************************************************************)
EXTENDS Integers, Sequences, FiniteSets, TLC

VARIABLES
    productsTable,          \* id -> product row
    categoriesTable,        \* id -> category row
    transactionsTable,      \* sequence of committed transaction rows
    transactionItemsTable,  \* sequence of committed transaction item rows
    transactions_id_seq,    \* last value of the serial of transactions.id
    now,                    \* the wall clock (Date.now(), new Date(), defaultNow())
    response,               \* what the last call returned or threw
    sessions                \* client -> its createTransaction call in flight

vars == <<productsTable, categoriesTable, transactionsTable,
          transactionItemsTable, transactions_id_seq, now, response, sessions>>

----------------------------------------------------------------------------
(* Bounds of the model *)

\* the stock every product starts with, and the largest quantity of a cart line
MaxStock == 2
\* the largest number of rows of transaction_items
MaxItemRows == 2
\* Math.floor(Math.random() * 1000) is drawn from 0..MaxRandom
MaxRandom == 1

----------------------------------------------------------------------------
(* Values *)

ProductIds == {1, 2}
\* a cart has at most as many lines as transaction_items has room for
MaxItems == MaxItemRows
\* a transaction has at least one item: the serial of transactions.id is
\* explored up to the number of item rows
MaxTransactions == MaxItemRows
\* repeated restores raise a stock without limit: calls are explored while every
\* stock stays at or under this ceiling
StockCeiling == MaxStock + 1
\* a product id no row has
NoSuchProduct == 99999
\* a transaction id no row has
NoSuchTransaction == 99999

Statuses == {"pending", "completed", "cancelled"}

\* the clients that call createTransaction at the same time
Clients == {1, 2}

ItemInputs == [product_id : ProductIds \cup {NoSuchProduct}, quantity : 1..MaxStock]
Carts == UNION {[1..n -> ItemInputs] : n \in 1..MaxItems}
TransactionIds == 1..MaxTransactions \cup {NoSuchTransaction}

Max(a, b) == IF a >= b THEN a ELSE b

\* parseFloat of the text of a numeric(10,2) column (cents -> 1/10000 units)
ParseFloat(cents) == cents * 100

\* number.toString() stored into a numeric(10,2) column: rounded to cents,
\* half away from zero
ToNumeric2(x) ==
    IF x >= 0 THEN (x + 50) \div 100 ELSE 0 - ((50 - x) \div 100)

----------------------------------------------------------------------------
(* The database a handler reads and writes *)

Database == [products |-> productsTable,
             transactions |-> transactionsTable,
             items |-> transactionItemsTable,
             id_seq |-> transactions_id_seq]

\* SelectTransaction without the where clause
SelectTransactionAny(db, id) == db.transactions

\* select ... from transactions where id = ...
SelectTransaction(db, id) ==
    SelectSeq(db.transactions, LAMBDA t : t.id = id)

\* select ... from transaction_items where transaction_id = ...
SelectItems(db, id) ==
    SelectSeq(db.items, LAMBDA it : it.transaction_id = id)

\* update products set stock_quantity = ... where id = ...
UpdateStock(db, product_id, quantity) ==
    [db EXCEPT !.products[product_id].stock_quantity = quantity]

\* a client with no call in flight
IdleSession ==
    [pc |-> "idle", items |-> <<>>, i |-> 0, subtotal |-> 0, itemsData |-> <<>>,
     id |-> 0, stock |-> 0, pendingTransactions |-> <<>>, pendingItems |-> <<>>,
     pendingStock |-> <<>>, result |-> "none",
     status |-> "none", current |-> "none", pendingStatus |-> <<>>]

NoResponse ==
    [op |-> "none", result |-> "none", id |-> 0, status |-> "none", was |-> "none",
     product_id |-> 0, available |-> 0, required |-> 0, inserts |-> 0]

----------------------------------------------------------------------------
(* createTransaction *)

NoError == [error |-> "none", product_id |-> 0, available |-> 0, required |-> 0]

\* CheckLine without the comparison of stock_quantity with the quantity
CheckLineNoStockCheck(products, item) ==
    IF item.product_id \notin DOMAIN products
    THEN [error |-> "ProductNotFound", product_id |-> item.product_id,
          available |-> 0, required |-> 0]
    ELSE NoError

\* CheckLine with one throw for both tests: a missing product is reported as
\* short of stock
CheckLineMissingAsShort(products, item) ==
    IF item.product_id \notin DOMAIN products
    THEN [error |-> "InsufficientStock", product_id |-> item.product_id,
          available |-> 0, required |-> item.quantity]
    ELSE IF products[item.product_id].stock_quantity < item.quantity
         THEN [error |-> "InsufficientStock", product_id |-> item.product_id,
               available |-> products[item.product_id].stock_quantity,
               required |-> item.quantity]
         ELSE NoError

\* one turn of the loop over input.items: select the product by id, throw if
\* there is no row, throw if its stock_quantity is less than the quantity
CheckLine(products, item) ==
    IF item.product_id \notin DOMAIN products
    THEN [error |-> "ProductNotFound", product_id |-> item.product_id,
          available |-> 0, required |-> 0]
    ELSE LET productData == products[item.product_id] IN
         IF productData.stock_quantity < item.quantity
         THEN [error |-> "InsufficientStock", product_id |-> item.product_id,
               available |-> productData.stock_quantity,
               required |-> item.quantity]
         ELSE NoError

\* LineData with the unit price as the line's total, whatever the quantity
LineDataUnitOnly(products, item) ==
    LET productData == products[item.product_id]
        unitPrice == ParseFloat(productData.selling_price)
    IN [product_id |-> item.product_id,
        product_name |-> productData.name,
        quantity |-> item.quantity,
        unit_price |-> unitPrice,
        total_price |-> unitPrice]

\* the entry the loop pushes on itemsData for a line that passed
LineData(products, item) ==
    LET productData == products[item.product_id]
        unitPrice == ParseFloat(productData.selling_price)
        totalPrice == unitPrice * item.quantity
    IN [product_id |-> item.product_id,
        product_name |-> productData.name,
        quantity |-> item.quantity,
        unit_price |-> unitPrice,
        total_price |-> totalPrice]

\* the for loop over input.items, from line i on
RECURSIVE ValidateItems(_, _, _, _, _)
ValidateItems(db, items, i, subtotal, itemsData) ==
    IF i > Len(items)
    THEN [check |-> NoError, subtotal |-> subtotal, itemsData |-> itemsData]
    ELSE LET check == CheckLine(db.products, items[i]) IN
         IF check.error # "none"
         THEN [check |-> check, subtotal |-> subtotal, itemsData |-> itemsData]
         ELSE LET line == LineData(db.products, items[i]) IN
              ValidateItems(db, items, i + 1, subtotal + line.total_price,
                            Append(itemsData, line))

\* Amounts with the change as the payment less the total, below zero or not
AmountsChangeUnclamped(subtotal, discount_percentage, payment_amount) ==
    LET discountAmount == (subtotal * discount_percentage) \div 100
        taxAmount == 0
        totalAmount == subtotal - discountAmount + taxAmount
        changeAmount == payment_amount - totalAmount
    IN [discountAmount |-> discountAmount, taxAmount |-> taxAmount,
        totalAmount |-> totalAmount, changeAmount |-> changeAmount]

\* the amounts of the transaction
Amounts(subtotal, discount_percentage, payment_amount) ==
    LET discountAmount == (subtotal * discount_percentage) \div 100
        taxAmount == 0
        totalAmount == subtotal - discountAmount + taxAmount
        changeAmount == Max(0, payment_amount - totalAmount)
    IN [discountAmount |-> discountAmount, taxAmount |-> taxAmount,
        totalAmount |-> totalAmount, changeAmount |-> changeAmount]

\* the row insert into transactions ... returning gives
TransactionRow(id, transactionNumber, userId, input, subtotal, at) ==
    LET a == Amounts(subtotal, input.discount_percentage, input.payment_amount) IN
    [id |-> id,
     transaction_number |-> transactionNumber,
     user_id |-> userId,
     subtotal |-> ToNumeric2(subtotal),
     discount_percentage |-> input.discount_percentage,
     discount_amount |-> ToNumeric2(a.discountAmount),
     tax_percentage |-> 0,
     tax_amount |-> ToNumeric2(a.taxAmount),
     total_amount |-> ToNumeric2(a.totalAmount),
     payment_amount |-> ToNumeric2(input.payment_amount),
     change_amount |-> ToNumeric2(a.changeAmount),
     status |-> "completed",
     created_at |-> at,
     updated_at |-> at]

\* the row insert into transaction_items stores
ItemRow(transaction_id, itemData) ==
    [transaction_id |-> transaction_id,
     product_id |-> itemData.product_id,
     product_name |-> itemData.product_name,
     quantity |-> itemData.quantity,
     unit_price |-> ToNumeric2(itemData.unit_price),
     total_price |-> ToNumeric2(itemData.total_price)]

\* WriteItems lowering each stock by one instead of by the line's quantity
RECURSIVE WriteItemsByOne(_, _, _, _)
WriteItemsByOne(db, transaction_id, itemsData, i) ==
    IF i > Len(itemsData)
    THEN db
    ELSE LET itemData == itemsData[i]
             inserted == [db EXCEPT !.items =
                              Append(@, ItemRow(transaction_id, itemData))]
             stock == inserted.products[itemData.product_id].stock_quantity
             updated == UpdateStock(inserted, itemData.product_id, stock - 1)
         IN WriteItemsByOne(updated, transaction_id, itemsData, i + 1)

\* the for loop over itemsData: insert the item, read the product's stock,
\* write it back less the quantity
RECURSIVE WriteItems(_, _, _, _)
WriteItems(db, transaction_id, itemsData, i) ==
    IF i > Len(itemsData)
    THEN db
    ELSE LET itemData == itemsData[i]
             inserted == [db EXCEPT !.items =
                              Append(@, ItemRow(transaction_id, itemData))]
             stock == inserted.products[itemData.product_id].stock_quantity
             updated == UpdateStock(inserted, itemData.product_id,
                                    stock - itemData.quantity)
         IN WriteItems(updated, transaction_id, itemsData, i + 1)

\* ViolatesUnique for a transaction_number column that is not unique
UniqueNotEnforced(transactions, transactionNumber) == FALSE

\* the unique constraint on transaction_number: the insert of a number that a
\* row has already is refused
ViolatesUnique(transactions, transactionNumber) ==
    \E k \in 1..Len(transactions) :
        transactions[k].transaction_number = transactionNumber

\* db.transaction: the callback's writes are kept when it returns and undone
\* when it throws; a value drawn from a serial is never given back
DbTransaction(db, threw, written) ==
    IF threw THEN [db EXCEPT !.id_seq = written.id_seq] ELSE written

\* the whole handler: the database and the response it leaves; inserts counts
\* the inserts into transactions the call has issued
CreateTransaction(db, input, userId, random, at) ==
    LET v == ValidateItems(db, input.items, 1, 0, <<>>) IN
    IF v.check.error # "none"
    THEN [db |-> DbTransaction(db, TRUE, db),
          response |-> [op |-> "createTransaction", result |-> v.check.error,
                        id |-> 0, status |-> "none", was |-> "none",
                        product_id |-> v.check.product_id,
                        available |-> v.check.available,
                        required |-> v.check.required,
                        inserts |-> 0]]
    ELSE LET transactionNumber == <<at, random>>
             id == db.id_seq + 1
             drawn == [db EXCEPT !.id_seq = id]
         IN IF ViolatesUnique(db.transactions, transactionNumber)
            THEN [db |-> DbTransaction(db, TRUE, drawn),
                  response |-> [op |-> "createTransaction",
                                result |-> "UniqueViolation", id |-> 0,
                                status |-> "none", was |-> "none",
                                product_id |-> 0, available |-> 0,
                                required |-> 0, inserts |-> 1]]
            ELSE LET row == TransactionRow(id, transactionNumber, userId, input,
                                           v.subtotal, at)
                     withRow == [drawn EXCEPT !.transactions = Append(@, row)]
                     written == WriteItems(withRow, id, v.itemsData, 1)
                 IN [db |-> DbTransaction(db, FALSE, written),
                     response |-> [op |-> "createTransaction", result |-> "ok",
                                   id |-> id, status |-> row.status,
                                   was |-> "none", product_id |-> 0, available |-> 0,
                                   required |-> 0, inserts |-> 1]]

----------------------------------------------------------------------------
(* updateTransactionStatus *)

\* RestoreItems restoring the first item only
RestoreFirstItem(db, items, i) ==
    IF Len(items) = 0
    THEN db
    ELSE UpdateStock(db, items[1].product_id,
                     db.products[items[1].product_id].stock_quantity
                         + items[1].quantity)

\* the for loop over the items of a cancelled transaction: read the product's
\* stock, write it back plus the quantity
RECURSIVE RestoreItems(_, _, _)
RestoreItems(db, items, i) ==
    IF i > Len(items)
    THEN db
    ELSE LET item == items[i]
             stock == db.products[item.product_id].stock_quantity
         IN RestoreItems(UpdateStock(db, item.product_id, stock + item.quantity),
                         items, i + 1)

\* RestoresStock without the test of the current status
RestoresOnAnyCancel(current, status) == status = "cancelled"

\* RestoresStock without the test of the new status
RestoresOnAnyLeave(current, status) == current = "completed"

\* whether the status change restores the stock
RestoresStock(current, status) ==
    status = "cancelled" /\ current = "completed"

\* WriteStatus that leaves a cancelled transaction cancelled
WriteStatusUnlessCancelled(db, id, status, at) ==
    [db EXCEPT !.transactions =
        [k \in DOMAIN @ |->
            IF @[k].id = id /\ @[k].status # "cancelled"
            THEN [@[k] EXCEPT !.status = status, !.updated_at = at]
            ELSE @[k]]]

\* update transactions set status = ..., updated_at = ... where id = ...
WriteStatus(db, id, status, at) ==
    [db EXCEPT !.transactions =
        [k \in DOMAIN @ |->
            IF @[k].id = id
            THEN [@[k] EXCEPT !.status = status, !.updated_at = at]
            ELSE @[k]]]

UpdateTransactionStatus(db, id, status, at) ==
    LET currentTransaction == SelectTransaction(db, id) IN
    IF Len(currentTransaction) = 0
    THEN [db |-> DbTransaction(db, TRUE, db),
          response |-> [op |-> "updateTransactionStatus",
                        result |-> "TransactionNotFound", id |-> id,
                        status |-> "none", was |-> "none", product_id |-> 0,
                        available |-> 0, required |-> 0,
                        inserts |-> 0]]
    ELSE LET restored ==
                 IF RestoresStock(currentTransaction[1].status, status)
                 THEN RestoreItems(db, SelectItems(db, id), 1)
                 ELSE db
             written == WriteStatus(restored, id, status, at)
         IN [db |-> DbTransaction(db, FALSE, written),
             response |-> [op |-> "updateTransactionStatus", result |-> "ok",
                           id |-> id, status |-> status,
                           was |-> currentTransaction[1].status,
                           product_id |-> 0, available |-> 0, required |-> 0,
                           inserts |-> 0]]

----------------------------------------------------------------------------
(* The calls, one handler at a time *)

\* the category of the products
Categories == <<[id |-> 1, name |-> "Test Category", is_active |-> TRUE]>>

Catalog ==
    [p \in ProductIds |->
        [id |-> p,
         name |-> IF p = 1 THEN "Test Product 1" ELSE "Test Product 2",
         selling_price |-> IF p = 1 THEN 1500 ELSE 3000,
         stock_quantity |-> MaxStock,
         is_active |-> TRUE]]

Init ==
    /\ productsTable = Catalog
    /\ transactionsTable = <<>>
    /\ transactionItemsTable = <<>>
    /\ transactions_id_seq = 0
    /\ now = 0
    /\ categoriesTable = Categories
    /\ response = NoResponse
    /\ sessions = [c \in Clients |-> IdleSession]

Commit(r) ==
    /\ productsTable' = r.db.products
    /\ transactionsTable' = r.db.transactions
    /\ transactionItemsTable' = r.db.items
    /\ transactions_id_seq' = r.db.id_seq
    /\ response' = r.response

createTransaction(input, userId) ==
    /\ \E random \in 0..MaxRandom :
          LET r == CreateTransaction(Database, input, userId, random, now) IN
          /\ r.db.id_seq <= MaxTransactions
          /\ Len(r.db.items) <= MaxItemRows
          /\ Commit(r)
    /\ UNCHANGED <<categoriesTable, now, sessions>>

updateTransactionStatus(id, status) ==
    /\ LET r == UpdateTransactionStatus(Database, id, status, now) IN
          /\ \A p \in ProductIds : r.db.products[p].stock_quantity <= StockCeiling
          /\ Commit(r)
    /\ UNCHANGED <<categoriesTable, now, sessions>>

Inputs ==
    [items : Carts, discount_percentage : {10}, payment_amount : {1000000}]

Next ==
    \/ \E input \in Inputs : createTransaction(input, 1)
    \/ \E id \in TransactionIds, status \in Statuses :
          updateTransactionStatus(id, status)

Spec == Init /\ [][Next]_vars

(* The pricing of a cart: the catalog's prices, the discount and the payment *)
(* drawn from small sets, one createTransaction applied to them              *)

SellingPrices == {105, 1500}
Discounts == {0, 10, 100}
Payments == {100, 1000000}

AmountInputs ==
    [items : Carts, discount_percentage : Discounts, payment_amount : Payments]

InitAmounts ==
    /\ productsTable \in
          {[p \in ProductIds |-> [Catalog[p] EXCEPT !.selling_price = price[p]]] :
              price \in [ProductIds -> SellingPrices]}
    /\ transactionsTable = <<>>
    /\ transactionItemsTable = <<>>
    /\ transactions_id_seq = 0
    /\ now = 0
    /\ categoriesTable = Categories
    /\ response = NoResponse
    /\ sessions = [c \in Clients |-> IdleSession]

\* one cart is priced in a behaviour
NextAmounts ==
    \E input \in AmountInputs :
        transactions_id_seq = 0 /\ createTransaction(input, 1)

SpecAmounts == InitAmounts /\ [][NextAmounts]_vars

----------------------------------------------------------------------------
(* The handler's numbers as they are: IEEE 754 binary64.  A double is a    *)
(* record [m, e] of value m * 2^e with m a natural of exactly MantissaBits *)
(* bits, or m = 0.  m is kept as a sequence of limbs, least significant    *)
(* first, in base Base, with no leading zero limb, since the naturals of   *)
(* the checker are narrower than a mantissa.  Every operation returns the  *)
(* exact result rounded to the nearest double, ties to even.  The amounts  *)
(* of a sale are positive and far from the ends of the exponent range, so  *)
(* signs, subnormals and infinities are left out.                          *)

MantissaBits == 53
Base == 2^15

RECURSIVE BigFromInt(_)
BigFromInt(n) == IF n = 0 THEN <<>> ELSE <<n % Base>> \o BigFromInt(n \div Base)

RECURSIVE BigToInt(_)
BigToInt(a) == IF Len(a) = 0 THEN 0 ELSE Head(a) + Base * BigToInt(Tail(a))

RECURSIVE BigTrim(_)
BigTrim(a) ==
    IF Len(a) = 0 \/ a[Len(a)] # 0 THEN a ELSE BigTrim(SubSeq(a, 1, Len(a) - 1))

\* a * k + carry for 0 <= k <= Base
RECURSIVE BigMulSmall(_, _, _)
BigMulSmall(a, k, carry) ==
    IF Len(a) = 0
    THEN BigFromInt(carry)
    ELSE LET t == Head(a) * k + carry IN
         <<t % Base>> \o BigMulSmall(Tail(a), k, t \div Base)

\* quotient and remainder of a by k for 0 < k <= Base, from the top limb down
RECURSIVE BigDivSmallFrom(_, _, _, _)
BigDivSmallFrom(a, k, i, rem) ==
    IF i = 0
    THEN [q |-> <<>>, r |-> rem]
    ELSE LET t == rem * Base + a[i]
             rest == BigDivSmallFrom(a, k, i - 1, t % k)
         IN [q |-> Append(rest.q, t \div k), r |-> rest.r]

BigDivSmall(a, k) ==
    LET d == BigDivSmallFrom(a, k, Len(a), 0) IN [q |-> BigTrim(d.q), r |-> d.r]

RECURSIVE BigAddFrom(_, _, _, _)
BigAddFrom(a, b, i, carry) ==
    IF i > Len(a) /\ i > Len(b)
    THEN BigFromInt(carry)
    ELSE LET t == (IF i <= Len(a) THEN a[i] ELSE 0)
                  + (IF i <= Len(b) THEN b[i] ELSE 0) + carry
         IN <<t % Base>> \o BigAddFrom(a, b, i + 1, t \div Base)

BigAdd(a, b) == BigTrim(BigAddFrom(a, b, 1, 0))

\* a - b for a >= b
RECURSIVE BigSubFrom(_, _, _, _)
BigSubFrom(a, b, i, borrow) ==
    IF i > Len(a)
    THEN <<>>
    ELSE LET t == a[i] - (IF i <= Len(b) THEN b[i] ELSE 0) - borrow IN
         <<IF t < 0 THEN t + Base ELSE t>>
             \o BigSubFrom(a, b, i + 1, IF t < 0 THEN 1 ELSE 0)

BigSub(a, b) == BigTrim(BigSubFrom(a, b, 1, 0))

\* a < b, a = b or a > b as -1, 0 or 1, compared from limb i down
RECURSIVE BigCmpFrom(_, _, _)
BigCmpFrom(a, b, i) ==
    IF i = 0 THEN 0
    ELSE IF a[i] < b[i] THEN 0 - 1
    ELSE IF a[i] > b[i] THEN 1
    ELSE BigCmpFrom(a, b, i - 1)

BigCmp(a, b) ==
    IF Len(a) < Len(b) THEN 0 - 1
    ELSE IF Len(a) > Len(b) THEN 1
    ELSE BigCmpFrom(a, b, Len(a))

RECURSIVE IntBits(_)
IntBits(n) == IF n = 0 THEN 0 ELSE 1 + IntBits(n \div 2)

BigBits(a) ==
    IF Len(a) = 0 THEN 0 ELSE 15 * (Len(a) - 1) + IntBits(a[Len(a)])

BigIsOdd(a) == Len(a) > 0 /\ a[1] % 2 = 1

\* a * 2^s
RECURSIVE BigShiftLeft(_, _)
BigShiftLeft(a, s) ==
    IF s = 0 THEN a
    ELSE IF s >= 15 THEN BigShiftLeft(BigMulSmall(a, Base, 0), s - 15)
    ELSE BigMulSmall(a, 2^s, 0)

\* floor(a / 2^s)
RECURSIVE BigShiftRight(_, _)
BigShiftRight(a, s) ==
    IF s = 0 THEN a
    ELSE IF s >= 15 THEN BigShiftRight(BigDivSmall(a, Base).q, s - 15)
    ELSE BigDivSmall(a, 2^s).q

DoubleZero == [m |-> <<>>, e |-> 0]

\* the double nearest to (n + f) * 2^e, where round is the bit below n and
\* sticky tells whether anything lies below that bit
RECURSIVE RoundToDouble(_, _, _, _)
RoundToDouble(n, e, round, sticky) ==
    IF BigBits(n) > MantissaBits
    THEN LET d == BigDivSmall(n, 2) IN
         RoundToDouble(d.q, e + 1, d.r, sticky \/ round = 1)
    ELSE IF round = 1 /\ (sticky \/ BigIsOdd(n))
    THEN RoundToDouble(BigAdd(n, <<1>>), e, 0, FALSE)
    ELSE IF Len(n) = 0
    THEN DoubleZero
    ELSE [m |-> BigShiftLeft(n, MantissaBits - BigBits(n)),
          e |-> e - (MantissaBits - BigBits(n))]

\* the double nearest to num / den, as parseFloat gives for a decimal text
DoubleOfRatio(num, den) ==
    LET d == BigDivSmall(BigShiftLeft(BigFromInt(num), 75), den) IN
    RoundToDouble(d.q, 0 - 75, 0, d.r # 0)

\* x * k for a whole number k
DoubleMulInt(x, k) == RoundToDouble(BigMulSmall(x.m, k, 0), x.e, 0, FALSE)

\* x / k for a whole number k
DoubleDivInt(x, k) ==
    LET d == BigDivSmall(BigShiftLeft(x.m, 30), k) IN
    RoundToDouble(d.q, x.e - 30, 0, d.r # 0)

DoubleMinExp(x, y) ==
    IF Len(x.m) = 0 THEN y.e
    ELSE IF Len(y.m) = 0 THEN x.e
    ELSE IF x.e < y.e THEN x.e ELSE y.e

DoubleAligned(x, e) == IF Len(x.m) = 0 THEN <<>> ELSE BigShiftLeft(x.m, x.e - e)

\* x + y
DoubleAdd(x, y) ==
    LET e == DoubleMinExp(x, y) IN
    RoundToDouble(BigAdd(DoubleAligned(x, e), DoubleAligned(y, e)), e, 0, FALSE)

\* x < y
DoubleLess(x, y) ==
    LET e == DoubleMinExp(x, y) IN
    BigCmp(DoubleAligned(x, e), DoubleAligned(y, e)) < 0

\* x - y for x >= y
DoubleSub(x, y) ==
    LET e == DoubleMinExp(x, y) IN
    RoundToDouble(BigSub(DoubleAligned(x, e), DoubleAligned(y, e)), e, 0, FALSE)

\* floor(x * 100)
DoubleFloorCents(x) ==
    LET scaled == BigMulSmall(x.m, 100, 0) IN
    BigToInt(IF x.e >= 0 THEN BigShiftLeft(scaled, x.e)
             ELSE BigShiftRight(scaled, 0 - x.e))

\* number.toString() stored into a numeric(10,2) column.  toString gives the
\* shortest decimal text that reads back as x and the column rounds the text
\* half away from zero, so the cents are rounded up exactly when x is not
\* less than the double the half-cent reads as
DoubleToNumeric2(x) ==
    LET n == DoubleFloorCents(x) IN
    IF DoubleLess(x, DoubleOfRatio(2 * n + 1, 200)) THEN n ELSE n + 1

\* the entry the loop pushes on itemsData, its numbers as doubles
DoubleLineData(products, item) ==
    LET productData == products[item.product_id]
        unitPrice == DoubleOfRatio(productData.selling_price, 100)
        totalPrice == DoubleMulInt(unitPrice, item.quantity)
    IN [product_id |-> item.product_id,
        product_name |-> productData.name,
        quantity |-> item.quantity,
        unit_price |-> unitPrice,
        total_price |-> totalPrice]

\* subtotal += totalPrice over the lines up to line i
RECURSIVE DoubleSubtotal(_, _)
DoubleSubtotal(itemsData, i) ==
    IF i = 0 THEN DoubleZero
    ELSE DoubleAdd(DoubleSubtotal(itemsData, i - 1), itemsData[i].total_price)

\* the amounts of the transaction as doubles
DoubleAmounts(subtotal, discount_percentage, payment_amount) ==
    LET discountAmount ==
            DoubleDivInt(DoubleMulInt(subtotal, discount_percentage), 100)
        taxAmount == DoubleZero
        totalAmount == DoubleAdd(DoubleSub(subtotal, discountAmount), taxAmount)
        changeAmount == IF DoubleLess(payment_amount, totalAmount)
                        THEN DoubleZero
                        ELSE DoubleSub(payment_amount, totalAmount)
    IN [discountAmount |-> discountAmount, taxAmount |-> taxAmount,
        totalAmount |-> totalAmount, changeAmount |-> changeAmount]

\* createTransaction with the numbers of its rows computed in doubles: the
\* checks, the ids, the rows and the stock are those of CreateTransaction
CreateTransactionInDoubles(db, input, userId, random, at) ==
    LET r == CreateTransaction(db, input, userId, random, at) IN
    IF r.response.result # "ok"
    THEN r
    ELSE LET itemsData == [i \in 1..Len(input.items) |->
                              DoubleLineData(db.products, input.items[i])]
             subtotal == DoubleSubtotal(itemsData, Len(itemsData))
             payment == DoubleOfRatio(input.payment_amount, 10000)
             a == DoubleAmounts(subtotal, input.discount_percentage, payment)
         IN [r EXCEPT
                !.db.transactions =
                    [k \in DOMAIN @ |->
                        IF @[k].id # r.response.id
                        THEN @[k]
                        ELSE [@[k] EXCEPT
                                 !.subtotal = DoubleToNumeric2(subtotal),
                                 !.discount_amount =
                                     DoubleToNumeric2(a.discountAmount),
                                 !.tax_amount = DoubleToNumeric2(a.taxAmount),
                                 !.total_amount = DoubleToNumeric2(a.totalAmount),
                                 !.payment_amount = DoubleToNumeric2(payment),
                                 !.change_amount =
                                     DoubleToNumeric2(a.changeAmount)]],
                !.db.items =
                    [k \in DOMAIN @ |->
                        IF @[k].transaction_id # r.response.id
                        THEN @[k]
                        ELSE LET line == itemsData[k - Len(db.items)] IN
                             [@[k] EXCEPT
                                 !.unit_price = DoubleToNumeric2(line.unit_price),
                                 !.total_price =
                                     DoubleToNumeric2(line.total_price)]]]

createTransactionInDoubles(input, userId) ==
    /\ \E random \in 0..MaxRandom :
          Commit(CreateTransactionInDoubles(Database, input, userId, random, now))
    /\ UNCHANGED <<categoriesTable, now, sessions>>

DoublePrices == {410, 1500}
DoubleDiscounts == {0, 15, 100}

DoubleInputs ==
    [items : Carts, discount_percentage : DoubleDiscounts, payment_amount : Payments]

InitDoubles ==
    /\ productsTable \in
          {[p \in ProductIds |-> [Catalog[p] EXCEPT !.selling_price = price[p]]] :
              price \in [ProductIds -> DoublePrices]}
    /\ transactionsTable = <<>>
    /\ transactionItemsTable = <<>>
    /\ transactions_id_seq = 0
    /\ now = 0
    /\ categoriesTable = Categories
    /\ response = NoResponse
    /\ sessions = [c \in Clients |-> IdleSession]

\* one cart is priced in a behaviour
NextDoubles ==
    \E input \in DoubleInputs :
        transactions_id_seq = 0 /\ createTransactionInDoubles(input, 1)

SpecDoubles == InitDoubles /\ [][NextDoubles]_vars

\* on the prices, discounts and payments of SpecAmounts the rows computed in
\* doubles are the rows computed exactly
ExactWherePriced ==
    \A input \in AmountInputs : \A random \in 0..MaxRandom :
        CreateTransactionInDoubles(Database, input, 1, random, now)
            = CreateTransaction(Database, input, 1, random, now)

----------------------------------------------------------------------------
(* The catalog handlers that write the products table: updateProduct,      *)
(* deleteProduct and updateProductStock.  Of a product row the model keeps *)
(* name, selling_price, stock_quantity and is_active; an updateProduct     *)
(* input here carries no category_id and no barcode, so the two checks on  *)
(* them are passed over as the handler passes over them.                   *)

\* an optional field of an input: <<>> when the input leaves it out, <<v>>
\* when it gives v
Undefined == <<>>

Given(input, field, current) ==
    IF input[field] = Undefined THEN current ELSE input[field][1]

CatalogResponse(op, result, id) ==
    [NoResponse EXCEPT !.op = op, !.result = result, !.product_id = id]

\* UpdateProduct that carries a new name and price into the items sold
UpdateProductAndItems(db, input) ==
    IF input.id \notin DOMAIN db.products
    THEN [db |-> db,
          response |-> CatalogResponse("updateProduct", "ProductNotFound", input.id)]
    ELSE LET existing == db.products[input.id]
             price == IF input.selling_price = Undefined
                      THEN existing.selling_price
                      ELSE ToNumeric2(input.selling_price[1])
         IN [db |-> [db EXCEPT
                        !.products[input.id] =
                            [existing EXCEPT
                                !.name = Given(input, "name", existing.name),
                                !.selling_price = price],
                        !.items =
                            [k \in DOMAIN @ |->
                                IF @[k].product_id = input.id
                                THEN [@[k] EXCEPT
                                        !.product_name =
                                            Given(input, "name", existing.name),
                                        !.unit_price = price]
                                ELSE @[k]]],
             response |-> CatalogResponse("updateProduct", "ok", input.id)]

\* updateProduct: the row is looked up, the fields the input gives are set
UpdateProduct(db, input) ==
    IF input.id \notin DOMAIN db.products
    THEN [db |-> db,
          response |-> CatalogResponse("updateProduct", "ProductNotFound", input.id)]
    ELSE LET existing == db.products[input.id] IN
         [db |-> [db EXCEPT !.products[input.id] =
                     [existing EXCEPT
                         !.name = Given(input, "name", existing.name),
                         !.selling_price =
                             IF input.selling_price = Undefined
                             THEN existing.selling_price
                             ELSE ToNumeric2(input.selling_price[1]),
                         !.stock_quantity =
                             Given(input, "stock_quantity", existing.stock_quantity),
                         !.is_active =
                             Given(input, "is_active", existing.is_active)]],
          response |-> CatalogResponse("updateProduct", "ok", input.id)]

\* deleteProduct: false when no row has the id, else is_active is set to false
DeleteProduct(db, id) ==
    IF id \notin DOMAIN db.products
    THEN [db |-> db, response |-> CatalogResponse("deleteProduct", "false", id)]
    ELSE [db |-> [db EXCEPT !.products[id].is_active = FALSE],
          response |-> CatalogResponse("deleteProduct", "true", id)]

\* updateProductStock: the stock_quantity is set to newQuantity
SetProductStock(db, id, newQuantity) ==
    IF id \notin DOMAIN db.products
    THEN [db |-> db,
          response |-> CatalogResponse("updateProductStock", "ProductNotFound", id)]
    ELSE [db |-> [db EXCEPT !.products[id].stock_quantity = newQuantity],
          response |-> CatalogResponse("updateProductStock", "ok", id)]

updateProduct(input) ==
    /\ Commit(UpdateProduct(Database, input))
    /\ UNCHANGED <<categoriesTable, now, sessions>>

deleteProduct(id) ==
    /\ Commit(DeleteProduct(Database, id))
    /\ UNCHANGED <<categoriesTable, now, sessions>>

updateProductStock(id, newQuantity) ==
    /\ Commit(SetProductStock(Database, id, newQuantity))
    /\ UNCHANGED <<categoriesTable, now, sessions>>

\* the edit of a product's name and price
UpdateProductInputs ==
    [id : ProductIds \cup {NoSuchProduct},
     name : {<<"Renamed Product">>},
     selling_price : {<<200000>>},
     stock_quantity : {Undefined},
     is_active : {Undefined}]

\* a cart of one line
CatalogInputs == {input \in Inputs : Len(input.items) = 1}

\* one sale, with the catalog edited before and after it
NextCatalog ==
    \/ \E input \in CatalogInputs :
          transactions_id_seq = 0 /\ createTransaction(input, 1)
    \/ \E id \in TransactionIds, status \in Statuses :
          updateTransactionStatus(id, status)
    \/ \E input \in UpdateProductInputs : updateProduct(input)
    \/ \E id \in ProductIds \cup {NoSuchProduct} : deleteProduct(id)
    \/ \E id \in ProductIds \cup {NoSuchProduct}, newQuantity \in 0..MaxStock :
          updateProductStock(id, newQuantity)

SpecCatalog == Init /\ [][NextCatalog]_vars

----------------------------------------------------------------------------
(* createTransaction statement by statement, for calls that run at the     *)
(* same time.  Each call runs in a transaction of the database at its      *)
(* default isolation, READ COMMITTED: a select sees what is committed when *)
(* it runs and the call's own writes; an update of a row waits while       *)
(* another transaction in flight has written the row; an insert of a       *)
(* unique value waits while another transaction in flight has inserted the *)
(* same value; the writes show to others at commit, or never.              *)

\* the carts of the concurrent calls name a product on one line at most
ConcurrentCarts ==
    {items \in Carts :
        \A i, j \in 1..Len(items) :
            items[i].product_id = items[j].product_id => i = j}

InFlight == {"validate", "insertTransaction", "insertItem", "selectStock",
             "updateStock", "commit"}

\* the products as a select of client c sees them
ViewProducts(c) ==
    [p \in ProductIds |->
        IF p \in DOMAIN sessions[c].pendingStock
        THEN [productsTable[p] EXCEPT
                 !.stock_quantity = sessions[c].pendingStock[p]]
        ELSE productsTable[p]]

\* a write of a transaction that throws is undone
Rollback(s, error) ==
    [s EXCEPT !.pc = "threw", !.result = error, !.pendingTransactions = <<>>,
              !.pendingItems = <<>>, !.pendingStock = <<>>]

\* tx.insert(transactionItemsTable) issued on db.insert: the row is committed
\* on its own
DbInsertItem(committed, pending, row) ==
    [committed |-> Append(committed, row), pending |-> pending]

\* tx.insert(transactionItemsTable): the row is written in the transaction
TxInsertItem(committed, pending, row) ==
    [committed |-> committed, pending |-> Append(pending, row)]

\* db.transaction(async (tx) => ...) is entered
BeginTransaction(c, items) ==
    /\ sessions[c].pc = "idle"
    /\ sessions' = [sessions EXCEPT ![c] =
           [IdleSession EXCEPT !.pc = "validate", !.items = items, !.i = 1]]
    /\ UNCHANGED <<categoriesTable, productsTable, transactionsTable, transactionItemsTable,
                   transactions_id_seq, now, response>>

\* the loop over input.items turned into one that checks a line only when
\* the lines before it have been written
SelectProductPerLine(c) ==
    LET s == sessions[c]
        k == Len(s.itemsData) + 1
        check == CheckLine(ViewProducts(c), s.items[k])
        line == LineData(ViewProducts(c), s.items[k])
    IN /\ \/ s.pc = "validate"
          \/ s.pc = "commit" /\ k <= Len(s.items)
       /\ sessions' = [sessions EXCEPT ![c] =
              IF check.error # "none"
              THEN Rollback(s, check.error)
              ELSE [s EXCEPT !.subtotal = @ + line.total_price,
                             !.itemsData = Append(@, line),
                             !.i = k,
                             !.pc = IF s.id = 0
                                    THEN "insertTransaction" ELSE "insertItem"]]
       /\ UNCHANGED <<categoriesTable, productsTable, transactionsTable, transactionItemsTable,
                      transactions_id_seq, now, response>>

\* one turn of the loop over input.items
SelectProduct(c) ==
    LET s == sessions[c]
        check == CheckLine(ViewProducts(c), s.items[s.i])
        line == LineData(ViewProducts(c), s.items[s.i])
    IN /\ s.pc = "validate"
       /\ sessions' = [sessions EXCEPT ![c] =
              IF check.error # "none"
              THEN Rollback(s, check.error)
              ELSE [s EXCEPT !.subtotal = @ + line.total_price,
                             !.itemsData = Append(@, line),
                             !.i = @ + 1,
                             !.pc = IF s.i + 1 > Len(s.items)
                                    THEN "insertTransaction" ELSE "validate"]]
       /\ UNCHANGED <<categoriesTable, productsTable, transactionsTable, transactionItemsTable,
                      transactions_id_seq, now, response>>

\* insert into transactions: the id is drawn, the number must be unique
InsertTransaction(c, input, userId) ==
    LET s == sessions[c] IN
    /\ s.pc = "insertTransaction"
    /\ \E random \in 0..MaxRandom :
          LET transactionNumber == <<now, random>>
              id == transactions_id_seq + 1
              row == TransactionRow(id, transactionNumber, userId, input,
                                    s.subtotal, now)
          IN /\ \A d \in Clients \ {c} :
                    \A k \in 1..Len(sessions[d].pendingTransactions) :
                        sessions[d].pendingTransactions[k].transaction_number
                            # transactionNumber
             /\ transactions_id_seq' = id
             /\ sessions' = [sessions EXCEPT ![c] =
                    IF ViolatesUnique(transactionsTable, transactionNumber)
                    THEN Rollback([s EXCEPT !.id = id], "UniqueViolation")
                    ELSE [s EXCEPT !.id = id,
                                   !.pendingTransactions = Append(@, row),
                                   !.i = 1,
                                   !.pc = "insertItem"]]
    /\ UNCHANGED <<categoriesTable, productsTable, transactionsTable, transactionItemsTable,
                   now, response>>

\* insert into transaction_items
InsertItem(c) ==
    LET s == sessions[c]
        w == TxInsertItem(transactionItemsTable, s.pendingItems,
                          ItemRow(s.id, s.itemsData[s.i]))
    IN /\ s.pc = "insertItem"
       /\ transactionItemsTable' = w.committed
       /\ sessions' = [sessions EXCEPT ![c] =
              [s EXCEPT !.pendingItems = w.pending, !.pc = "selectStock"]]
       /\ UNCHANGED <<categoriesTable, productsTable, transactionsTable, transactions_id_seq,
                      now, response>>

\* the select of stock_quantity inside the update
SelectStock(c) ==
    LET s == sessions[c] IN
    /\ s.pc = "selectStock"
    /\ sessions' = [sessions EXCEPT ![c] =
           [s EXCEPT !.stock = ViewProducts(c)[s.itemsData[s.i].product_id]
                                   .stock_quantity,
                     !.pc = "updateStock"]]
    /\ UNCHANGED <<categoriesTable, productsTable, transactionsTable, transactionItemsTable,
                   transactions_id_seq, now, response>>

\* client c waits for the row of the product that client d has written
WaitsFor(c, d) ==
    /\ c # d
    /\ sessions[c].pc = "updateStock"
    /\ sessions[c].itemsData[sessions[c].i].product_id
           \in DOMAIN sessions[d].pendingStock

\* update products set stock_quantity = (the stock read) - quantity
UpdateProductStock(c) ==
    LET s == sessions[c]
        itemData == s.itemsData[s.i]
    IN /\ s.pc = "updateStock"
       /\ \A d \in Clients : ~WaitsFor(c, d)
       /\ sessions' = [sessions EXCEPT ![c] =
              [s EXCEPT !.pendingStock =
                            (itemData.product_id :> (s.stock - itemData.quantity))
                                @@ @,
                        !.i = @ + 1,
                        !.pc = IF s.i + 1 > Len(s.itemsData)
                               THEN "commit" ELSE "insertItem"]]
       /\ UNCHANGED <<categoriesTable, productsTable, transactionsTable, transactionItemsTable,
                      transactions_id_seq, now, response>>

\* the callback returns: the transaction commits
CommitTransaction(c) ==
    LET s == sessions[c] IN
    /\ s.pc = "commit"
    /\ transactionsTable' = transactionsTable \o s.pendingTransactions
    /\ transactionItemsTable' = transactionItemsTable \o s.pendingItems
    /\ productsTable' = ViewProducts(c)
    /\ sessions' = [sessions EXCEPT ![c] =
           [s EXCEPT !.pc = "returned", !.result = "ok",
                     !.pendingTransactions = <<>>, !.pendingItems = <<>>,
                     !.pendingStock = <<>>]]
    /\ UNCHANGED <<categoriesTable, transactions_id_seq, now, response>>

\* two calls wait for each other's product row: the database ends one of them
DeadlockDetected(c) ==
    /\ \E d \in Clients : WaitsFor(c, d) /\ WaitsFor(d, c)
    /\ sessions' = [sessions EXCEPT ![c] = Rollback(sessions[c], "Deadlock")]
    /\ UNCHANGED <<categoriesTable, productsTable, transactionsTable, transactionItemsTable,
                   transactions_id_seq, now, response>>

\* a statement, or the commit, fails in the database
PersistenceFailure(c) ==
    /\ sessions[c].pc \in InFlight
    /\ sessions' = [sessions EXCEPT ![c] =
           Rollback(sessions[c], "PersistenceFailure")]
    /\ UNCHANGED <<categoriesTable, productsTable, transactionsTable, transactionItemsTable,
                   transactions_id_seq, now, response>>

ConcurrentInput(items) ==
    [items |-> items, discount_percentage |-> 10, payment_amount |-> 1000000]

NextConcurrent ==
    \E c \in Clients :
        \/ \E items \in ConcurrentCarts : BeginTransaction(c, items)
        \/ SelectProduct(c)
        \/ InsertTransaction(c, ConcurrentInput(sessions[c].items), c)
        \/ InsertItem(c)
        \/ SelectStock(c)
        \/ UpdateProductStock(c)
        \/ CommitTransaction(c)
        \/ DeadlockDetected(c)
        \/ PersistenceFailure(c)

SpecConcurrent == Init /\ [][NextConcurrent]_vars

----------------------------------------------------------------------------
(* updateTransactionStatus statement by statement, run at the same time as *)
(* another updateTransactionStatus or a createTransaction, after one sale  *)
(* has been committed.  The isolation is the same: the select of the       *)
(* transaction, the select of its items and each select of a stock see     *)
(* what is committed when they run; the update of a product row and the    *)
(* update of the transaction row wait while another transaction in flight  *)
(* has written the row.                                                    *)

\* a cart of one line for the sale and for the calls that run at the same time
OneLineCarts == {items \in ConcurrentCarts : Len(items) = 1}

\* the database after the sale of a one-line cart
InitSold ==
    /\ \E items \in OneLineCarts :
          LET r == CreateTransaction(
                       [products |-> Catalog, transactions |-> <<>>,
                        items |-> <<>>, id_seq |-> 0],
                       ConcurrentInput(items), 1, 0, 0)
          IN /\ r.response.result = "ok"
             /\ productsTable = r.db.products
             /\ transactionsTable = r.db.transactions
             /\ transactionItemsTable = r.db.items
             /\ transactions_id_seq = r.db.id_seq
    /\ now = 0
    /\ categoriesTable = Categories
    /\ response = NoResponse
    /\ sessions = [c \in Clients |-> IdleSession]

\* db.transaction(async (tx) => ...) of updateTransactionStatus is entered
BeginStatusUpdate(c, id, status) ==
    /\ sessions[c].pc = "idle"
    /\ sessions' = [sessions EXCEPT ![c] =
           [IdleSession EXCEPT !.pc = "selectTransaction", !.id = id,
                               !.status = status]]
    /\ UNCHANGED <<categoriesTable, productsTable, transactionsTable, transactionItemsTable,
                   transactions_id_seq, now, response>>

\* the select of the current transaction and the test of the two statuses
SelectCurrentTransaction(c) ==
    LET s == sessions[c]
        currentTransaction == SelectTransaction(Database, s.id)
    IN /\ s.pc = "selectTransaction"
       /\ sessions' = [sessions EXCEPT ![c] =
              IF Len(currentTransaction) = 0
              THEN Rollback(s, "TransactionNotFound")
              ELSE [s EXCEPT !.current = currentTransaction[1].status,
                             !.pc = IF RestoresStock(currentTransaction[1].status,
                                                     s.status)
                                    THEN "selectItems" ELSE "updateStatus"]]
       /\ UNCHANGED <<categoriesTable, productsTable, transactionsTable, transactionItemsTable,
                      transactions_id_seq, now, response>>

\* the select of the items of the transaction
SelectItemsToRestore(c) ==
    LET s == sessions[c]
        items == SelectItems(Database, s.id)
    IN /\ s.pc = "selectItems"
       /\ sessions' = [sessions EXCEPT ![c] =
              [s EXCEPT !.items = items, !.i = 1,
                        !.pc = IF Len(items) = 0
                               THEN "updateStatus" ELSE "selectRestoreStock"]]
       /\ UNCHANGED <<categoriesTable, productsTable, transactionsTable, transactionItemsTable,
                      transactions_id_seq, now, response>>

\* the select of stock_quantity inside the update that restores
SelectStockToRestore(c) ==
    LET s == sessions[c] IN
    /\ s.pc = "selectRestoreStock"
    /\ sessions' = [sessions EXCEPT ![c] =
           [s EXCEPT !.stock = ViewProducts(c)[s.items[s.i].product_id]
                                   .stock_quantity,
                     !.pc = "restoreStock"]]
    /\ UNCHANGED <<categoriesTable, productsTable, transactionsTable, transactionItemsTable,
                   transactions_id_seq, now, response>>

\* update products set stock_quantity = (the stock read) + quantity
RestoreProductStock(c) ==
    LET s == sessions[c]
        item == s.items[s.i]
    IN /\ s.pc = "restoreStock"
       /\ \A d \in Clients \ {c} :
             item.product_id \notin DOMAIN sessions[d].pendingStock
       /\ sessions' = [sessions EXCEPT ![c] =
              [s EXCEPT !.pendingStock =
                            (item.product_id :> (s.stock + item.quantity)) @@ @,
                        !.i = @ + 1,
                        !.pc = IF s.i + 1 > Len(s.items)
                               THEN "updateStatus" ELSE "selectRestoreStock"]]
       /\ UNCHANGED <<categoriesTable, productsTable, transactionsTable, transactionItemsTable,
                      transactions_id_seq, now, response>>

\* update transactions set status = ..., updated_at = ... where id = ...
UpdateStatus(c) ==
    LET s == sessions[c] IN
    /\ s.pc = "updateStatus"
    /\ \A d \in Clients \ {c} :
          sessions[d].pendingStatus = <<>> \/ sessions[d].id # s.id
    /\ sessions' = [sessions EXCEPT ![c] =
           [s EXCEPT !.pendingStatus = <<s.status>>, !.pc = "commitStatus"]]
    /\ UNCHANGED <<categoriesTable, productsTable, transactionsTable, transactionItemsTable,
                   transactions_id_seq, now, response>>

\* the callback returns: the restored stocks and the status are committed
CommitStatusUpdate(c) ==
    LET s == sessions[c] IN
    /\ s.pc = "commitStatus"
    /\ productsTable' = ViewProducts(c)
    /\ transactionsTable' =
           WriteStatus(Database, s.id, s.pendingStatus[1], now).transactions
    /\ sessions' = [sessions EXCEPT ![c] =
           [s EXCEPT !.pc = "returned", !.result = "ok",
                     !.pendingStock = <<>>, !.pendingStatus = <<>>]]
    /\ UNCHANGED <<categoriesTable, transactionItemsTable, transactions_id_seq, now, response>>

NextRestore ==
    \E c \in Clients :
        \/ \E id \in 1..MaxTransactions : BeginStatusUpdate(c, id, "cancelled")
        \/ SelectCurrentTransaction(c)
        \/ SelectItemsToRestore(c)
        \/ SelectStockToRestore(c)
        \/ RestoreProductStock(c)
        \/ UpdateStatus(c)
        \/ CommitStatusUpdate(c)
        \/ \E items \in OneLineCarts : BeginTransaction(c, items)
        \/ SelectProduct(c)
        \/ InsertTransaction(c, ConcurrentInput(sessions[c].items), c)
        \/ InsertItem(c)
        \/ SelectStock(c)
        \/ UpdateProductStock(c)
        \/ CommitTransaction(c)

SpecRestore == InitSold /\ [][NextRestore]_vars

----------------------------------------------------------------------------
(* What the claims are stated with *)

Stock(products) == [p \in ProductIds |-> products[p].stock_quantity]

\* the quantities of the lines (cart lines or item rows) that name product p
RECURSIVE SumQuantity(_, _)
SumQuantity(lines, p) ==
    IF Len(lines) = 0
    THEN 0
    ELSE (IF Head(lines).product_id = p THEN Head(lines).quantity ELSE 0)
         + SumQuantity(Tail(lines), p)

\* line i of the cart names a product that exists and asks for more than its stock
AsksTooMuch(items, i) ==
    /\ items[i].product_id \in ProductIds
    /\ items[i].quantity > productsTable[items[i].product_id].stock_quantity

\* line i of the cart names a product id no row has
NamesNoProduct(items, i) == items[i].product_id \notin ProductIds

\* the result of each call a client can make in the current state
CreateResults(input) ==
    {CreateTransaction(Database, input, 1, random, now) : random \in 0..MaxRandom}

StatusOf(id) == SelectTransaction(Database, id)[1].status

\* the sum of total_price over item rows
RECURSIVE SumTotalPrice(_)
SumTotalPrice(rows) ==
    IF Len(rows) = 0 THEN 0 ELSE Head(rows).total_price + SumTotalPrice(Tail(rows))

\* the quantity of product p sold by the concurrent calls that returned
RECURSIVE SoldByReturned(_, _)
SoldByReturned(clients, p) ==
    IF clients = {}
    THEN 0
    ELSE LET c == CHOOSE x \in clients : TRUE IN
         (IF sessions[c].pc = "returned"
          THEN SumQuantity(sessions[c].items, p) ELSE 0)
         + SoldByReturned(clients \ {c}, p)

\* what the calls that returned have added to the stock of product p: a
\* createTransaction takes the quantities of its cart, an
\* updateTransactionStatus gives back the quantities of the items it restored
RECURSIVE StockMoved(_, _)
StockMoved(clients, p) ==
    IF clients = {}
    THEN 0
    ELSE LET c == CHOOSE x \in clients : TRUE
             s == sessions[c]
         IN (IF s.pc # "returned" THEN 0
             ELSE IF s.status = "none" THEN 0 - SumQuantity(s.items, p)
             ELSE SumQuantity(s.items, p))
            + StockMoved(clients \ {c}, p)

\* the products the cart of client c names
CartProducts(c) ==
    {sessions[c].items[i].product_id : i \in 1..Len(sessions[c].items)}

\* what the other operations can read
CommittedTables == <<productsTable, transactionsTable, transactionItemsTable>>

\* in this step client c commits, and its transaction row, the item row of
\* every line of its cart and the stock it wrote for every product of its cart
\* appear together
CommitsWhole(c) ==
    LET s == sessions[c] IN
    /\ s.pc = "commit"
    /\ sessions'[c].pc = "returned"
    /\ Len(s.pendingTransactions) = 1
    /\ s.pendingTransactions[1].id = s.id
    /\ transactionsTable' = Append(transactionsTable, s.pendingTransactions[1])
    /\ Len(s.pendingItems) = Len(s.items)
    /\ \A i \in 1..Len(s.items) :
          /\ s.pendingItems[i].transaction_id = s.id
          /\ s.pendingItems[i].product_id = s.items[i].product_id
          /\ s.pendingItems[i].quantity = s.items[i].quantity
    /\ transactionItemsTable' = transactionItemsTable \o s.pendingItems
    /\ DOMAIN s.pendingStock = CartProducts(c)
    /\ \A p \in ProductIds :
          productsTable'[p] =
              IF p \in CartProducts(c)
              THEN [productsTable[p] EXCEPT !.stock_quantity = s.pendingStock[p]]
              ELSE productsTable[p]

\* no row of a call that has not committed can be read
NothingOfUncommitted ==
    \A c \in Clients :
        sessions[c].pc # "returned" =>
            /\ \A k \in 1..Len(transactionsTable) :
                  sessions[c].id # 0 => transactionsTable[k].id # sessions[c].id
            /\ \A k \in 1..Len(transactionItemsTable) :
                  sessions[c].id # 0 =>
                      transactionItemsTable[k].transaction_id # sessions[c].id

\* every transaction that can be read has the item row of every line of its cart
EveryTransactionComplete ==
    /\ \A k \in 1..Len(transactionsTable) :
          \E c \in Clients :
              /\ sessions[c].pc = "returned"
              /\ sessions[c].id = transactionsTable[k].id
              /\ Len(SelectItems(Database, sessions[c].id)) = Len(sessions[c].items)
    /\ \A k \in 1..Len(transactionItemsTable) :
          Len(SelectTransaction(Database,
                                transactionItemsTable[k].transaction_id)) = 1

----------------------------------------------------------------------------
(* C1: in every reachable state every product's stock_quantity is >= 0.     *)
(* Stated as the claim states it; a cart naming one product on two lines   *)
(* passes both checks against the same stock and is decremented twice.     *)
C1_StockNeverNegative ==
    \A p \in ProductIds : productsTable[p].stock_quantity >= 0

(* C2: two createTransaction calls that run at the same time on one       *)
(* product never jointly oversell: whatever the interleaving, the calls    *)
(* that return have sold of each product at most the stock there was       *)
(* before them.  Stated as the claim states it; a call checks the stock    *)
(* in one statement and writes it in a later one, and nothing locks the    *)
(* row in between.                                                         *)
C2_NoJointOversell ==
    \A p \in ProductIds : SoldByReturned(Clients, p) <= Catalog[p].stock_quantity

(* C3: a successful createTransaction lowers every product's stock by the  *)
(* sum of the quantities of the cart lines naming it, and so leaves the    *)
(* stock of a product outside the cart alone.                              *)
C3_StockDropsByCartQuantities ==
    \A input \in Inputs : \A r \in CreateResults(input) :
        r.response.result = "ok" =>
            \A p \in ProductIds :
                r.db.products[p].stock_quantity =
                    productsTable[p].stock_quantity - SumQuantity(input.items, p)

C3_Witness ==
    /\ response.op = "createTransaction" /\ response.result = "ok"
    /\ Len(SelectItems(Database, response.id)) = 2
    /\ productsTable[1].stock_quantity = MaxStock - 2
    /\ productsTable[2].stock_quantity = MaxStock

(* C4: cancelling a completed transaction adds each item's quantity to its *)
(* product's stock, so that createTransaction followed by the cancellation *)
(* leaves every stock at its value before the transaction.                 *)
C4_CancelRestoresStock ==
    /\ \A id \in 1..MaxTransactions :
          (Len(SelectTransaction(Database, id)) = 1 /\ StatusOf(id) = "completed") =>
              LET r == UpdateTransactionStatus(Database, id, "cancelled", now) IN
              /\ r.response.result = "ok"
              /\ \A p \in ProductIds :
                    r.db.products[p].stock_quantity =
                        productsTable[p].stock_quantity
                            + SumQuantity(SelectItems(Database, id), p)
    /\ \A input \in Inputs : \A c \in CreateResults(input) :
          c.response.result = "ok" =>
              LET r == UpdateTransactionStatus(c.db, c.response.id, "cancelled", now)
              IN Stock(r.db.products) = Stock(productsTable)

C4_Witness ==
    /\ response.op = "updateTransactionStatus" /\ response.result = "ok"
    /\ response.status = "cancelled"
    /\ Len(transactionsTable) = 1
    /\ Len(transactionItemsTable) = 2
    /\ \A p \in ProductIds : productsTable[p].stock_quantity = MaxStock

(* C5: cancelling a transaction that is already cancelled changes no       *)
(* product's stock, however often it is repeated.                          *)
C5_CancelOfCancelledKeepsStock ==
    [][(/\ response'.op = "updateTransactionStatus"
        /\ response'.result = "ok"
        /\ response'.status = "cancelled"
        /\ response'.was = "cancelled")
       => productsTable' = productsTable]_vars

C5_Witness ==
    /\ response.op = "updateTransactionStatus" /\ response.result = "ok"
    /\ response.status = "cancelled"
    /\ response.was = "cancelled"
    /\ Len(SelectItems(Database, response.id)) > 0

(* C6: a status change other than completed -> cancelled writes the status *)
(* and updated_at of the one transaction and nothing else: no stock, no    *)
(* item, no other field or row of transactions.                            *)
C6_OtherTransitionsWriteStatusOnly ==
    [][(/\ response'.op = "updateTransactionStatus"
        /\ response'.result = "ok"
        /\ ~(response'.was = "completed" /\ response'.status = "cancelled"))
       => /\ productsTable' = productsTable
          /\ transactionItemsTable' = transactionItemsTable
          /\ transactions_id_seq' = transactions_id_seq
          /\ Len(transactionsTable') = Len(transactionsTable)
          /\ \A k \in 1..Len(transactionsTable) :
                transactionsTable'[k] =
                    IF transactionsTable[k].id = response'.id
                    THEN [transactionsTable[k] EXCEPT
                             !.status = response'.status, !.updated_at = now]
                    ELSE transactionsTable[k]]_vars

C6_Witness ==
    /\ response.op = "updateTransactionStatus" /\ response.result = "ok"
    /\ response.was = "cancelled" /\ response.status = "completed"
    /\ Len(transactionsTable) = 2
    /\ \A p \in ProductIds : productsTable[p].stock_quantity = MaxStock

(* C7, as claimed: createTransaction fails with InsufficientStock whenever *)
(* some line of the cart asks for more than its product's stock, wherever  *)
(* the line stands, and then leaves the database as it was.                *)
C7_InsufficientStockAnywhere ==
    \A input \in Inputs : \A r \in CreateResults(input) :
        (\E i \in 1..Len(input.items) : AsksTooMuch(input.items, i)) =>
            /\ r.response.result = "InsufficientStock"
            /\ r.db = Database

(* C7, amended: createTransaction fails with InsufficientStock whenever    *)
(* some line of the cart asks for more than its product's stock and no     *)
(* line before it names a product that does not exist, and then leaves the *)
(* database as it was.                                                     *)
C7_InsufficientStockUnlessMissingFirst ==
    \A input \in Inputs : \A r \in CreateResults(input) :
        (\E i \in 1..Len(input.items) :
            /\ AsksTooMuch(input.items, i)
            /\ \A j \in 1..(i - 1) : ~NamesNoProduct(input.items, j)) =>
            /\ r.response.result = "InsufficientStock"
            /\ r.db = Database

C7_Witness ==
    /\ response.op = "createTransaction"
    /\ response.result = "InsufficientStock"
    /\ response.product_id = 1
    /\ response.available = 1 /\ response.required = 2
    /\ productsTable[1].stock_quantity = 1
    /\ Len(transactionsTable) = 1 /\ Len(transactionItemsTable) = 1

(* C8, as claimed: createTransaction fails with ProductNotFound whenever   *)
(* some line of the cart names a product id that does not exist, wherever  *)
(* the line stands, and then leaves the database as it was.                *)
C8_ProductNotFoundAnywhere ==
    \A input \in Inputs : \A r \in CreateResults(input) :
        (\E i \in 1..Len(input.items) : NamesNoProduct(input.items, i)) =>
            /\ r.response.result = "ProductNotFound"
            /\ r.db = Database

(* C8, amended: createTransaction fails with ProductNotFound whenever some *)
(* line of the cart names a product id that does not exist and no line     *)
(* before it asks for more than its product's stock, and then leaves the   *)
(* database as it was.                                                     *)
C8_ProductNotFoundUnlessShortFirst ==
    \A input \in Inputs : \A r \in CreateResults(input) :
        (\E i \in 1..Len(input.items) :
            /\ NamesNoProduct(input.items, i)
            /\ \A j \in 1..(i - 1) : ~AsksTooMuch(input.items, j)) =>
            /\ r.response.result = "ProductNotFound"
            /\ r.db = Database

C8_Witness ==
    /\ response.op = "createTransaction"
    /\ response.result = "ProductNotFound"
    /\ response.product_id = NoSuchProduct
    /\ Len(transactionsTable) = 1 /\ Len(transactionItemsTable) = 1
    /\ productsTable[2].stock_quantity = MaxStock - 1

(* C9: createTransaction is all or nothing.  The tables other operations   *)
(* read change only in the step in which a call commits, and then by the   *)
(* whole of that call: its transaction row, one item row for every line of *)
(* its cart and its stock writes.  A call that throws at any statement, a  *)
(* failed insert, a unique violation or a deadlock among them, leaves no   *)
(* row, and a transaction that can be read has all its items.              *)
C9_AllOrNothing ==
    /\ [](NothingOfUncommitted /\ EveryTransactionComplete)
    /\ [][CommittedTables' # CommittedTables
            => \E c \in Clients : CommitsWhole(c)]_vars

C9_Witness ==
    \E c, d \in Clients :
        /\ sessions[c].pc = "threw"
        /\ sessions[c].result = "PersistenceFailure"
        /\ sessions[c].id # 0
        /\ Len(sessions[c].items) = 2
        /\ sessions[c].i = 2
        /\ sessions[d].pc = "returned"
        /\ Len(sessions[d].items) = 2
        /\ Len(transactionsTable) = 1
        /\ Len(transactionItemsTable) = 2

(* C10: every persisted transaction has tax_amount = 0 and                 *)
(* total_amount = subtotal - discount_amount + tax_amount on the stored    *)
(* two-decimal values.  Stated as the claim states it; the handler rounds  *)
(* neither the discount nor the total before the columns do.               *)
C10_TotalIsSubtotalLessDiscount ==
    \A k \in 1..Len(transactionsTable) :
        LET t == transactionsTable[k] IN
        /\ t.tax_amount = 0
        /\ t.total_amount = t.subtotal - t.discount_amount + t.tax_amount

(* C11: every persisted transaction has subtotal equal to the sum of       *)
(* total_price over its own items, and every item createTransaction writes *)
(* has total_price = unit_price * quantity with unit_price the product's   *)
(* selling_price when the call was made.                                   *)
C11_SubtotalIsSumOfLineTotals ==
    /\ \A k \in 1..Len(transactionsTable) :
          transactionsTable[k].subtotal =
              SumTotalPrice(SelectItems(Database, transactionsTable[k].id))
    /\ \A k \in 1..Len(transactionItemsTable) :
          transactionItemsTable[k].total_price =
              transactionItemsTable[k].unit_price * transactionItemsTable[k].quantity
    /\ \A input \in AmountInputs : \A r \in CreateResults(input) :
          r.response.result = "ok" =>
              LET rows == SelectItems(r.db, r.response.id) IN
              /\ Len(rows) = Len(input.items)
              /\ \A i \in 1..Len(rows) :
                    /\ rows[i].product_id = input.items[i].product_id
                    /\ rows[i].quantity = input.items[i].quantity
                    /\ rows[i].unit_price =
                          productsTable[rows[i].product_id].selling_price
                    /\ rows[i].total_price = rows[i].unit_price * rows[i].quantity
              /\ SelectTransaction(r.db, r.response.id)[1].subtotal =
                    SumTotalPrice(rows)

C11_Witness ==
    /\ response.op = "createTransaction" /\ response.result = "ok"
    /\ Len(transactionItemsTable) = 2
    /\ transactionItemsTable[1].product_id = 1
    /\ transactionItemsTable[1].quantity = 2
    /\ transactionItemsTable[1].unit_price = 105
    /\ transactionItemsTable[1].total_price = 210
    /\ transactionItemsTable[2].product_id = 2
    /\ transactionItemsTable[2].unit_price = 1500
    /\ transactionsTable[1].subtotal = 1710

(* C13: every created transaction has change_amount =                      *)
(* max(0, payment_amount - total_amount) on the stored values; a payment   *)
(* below the total is accepted and gives change_amount 0 and status        *)
(* completed.  Stated as the claim states it; the handler takes the change *)
(* from the total before the column has rounded it.                        *)
C13_ChangeIsPaymentLessTotal ==
    \A k \in 1..Len(transactionsTable) :
        LET t == transactionsTable[k] IN
        /\ t.change_amount = Max(0, t.payment_amount - t.total_amount)
        /\ t.status = "completed"

(* C14: updateTransactionStatus on an id that no transaction has fails    *)
(* with TransactionNotFound whatever the status asked for, and leaves      *)
(* every transaction, every item and every product's stock as they were.   *)
C14_UnknownIdIsTransactionNotFound ==
    \A id \in TransactionIds : \A status \in Statuses :
        (\A k \in 1..Len(transactionsTable) : transactionsTable[k].id # id) =>
            LET r == UpdateTransactionStatus(Database, id, status, now) IN
            /\ r.response.result = "TransactionNotFound"
            /\ r.db = Database

C14_Witness ==
    /\ response.op = "updateTransactionStatus"
    /\ response.result = "TransactionNotFound"
    /\ response.id = NoSuchTransaction
    /\ Len(transactionsTable) = 1
    /\ transactionsTable[1].status = "completed"
    /\ productsTable[1].stock_quantity = MaxStock - 1

(* C15: every transaction is created in status completed, and              *)
(* updateTransactionStatus on a transaction that exists succeeds for every *)
(* pair of current and new status over pending, completed, cancelled and   *)
(* leaves the transaction in the new status.                               *)
C15_NoTransitionBlocked ==
    /\ \A input \in Inputs : \A r \in CreateResults(input) :
          r.response.result = "ok" =>
              SelectTransaction(r.db, r.response.id)[1].status = "completed"
    /\ \A k \in 1..Len(transactionsTable) : \A status \in Statuses :
          LET id == transactionsTable[k].id
              r == UpdateTransactionStatus(Database, id, status, now)
          IN /\ transactionsTable[k].status \in Statuses
             /\ r.response.result = "ok"
             /\ Len(SelectTransaction(r.db, id)) = 1
             /\ SelectTransaction(r.db, id)[1].status = status

C15_Witness ==
    /\ response.op = "updateTransactionStatus" /\ response.result = "ok"
    /\ response.was = "cancelled" /\ response.status = "pending"
    /\ Len(transactionsTable) = 2
    /\ StatusOf(response.id) = "pending"
    /\ \E k \in 1..2 : transactionsTable[k].status = "completed"

(* C16: in every reachable state no two persisted transactions have the    *)
(* same transaction_number, also when two createTransaction calls have     *)
(* generated the same number.                                              *)
C16_TransactionNumbersUnique ==
    \A j, k \in 1..Len(transactionsTable) :
        transactionsTable[j].transaction_number
            = transactionsTable[k].transaction_number => j = k

C16_Witness ==
    \E c, d \in Clients :
        /\ sessions[c].pc = "threw"
        /\ sessions[c].result = "UniqueViolation"
        /\ sessions[d].pc = "returned"
        /\ Len(transactionsTable) = 1

(* C17: when the transaction_number createTransaction generates is that   *)
(* of a persisted transaction, the call generates another number and       *)
(* inserts again, a bounded number of times, before it fails with the      *)
(* uniqueness error: a call that fails so has issued more than one insert. *)
(* Stated as the claim states it; the handler generates one number,        *)
(* issues one insert and rethrows what the insert throws.                  *)
C17_RetriesBeforeUniquenessError ==
    response.result = "UniqueViolation" => response.inserts > 1

(* C18: the product_name and unit_price of a transaction item are the     *)
(* product's name and selling_price when the transaction was created, and  *)
(* no later call changes an item: every step leaves every existing item as *)
(* it was, and the steps of updateProduct, deleteProduct,                  *)
(* updateProductStock and updateTransactionStatus add none.                *)
C18_ItemsAreSnapshots ==
    [][/\ Len(transactionItemsTable') >= Len(transactionItemsTable)
       /\ \A k \in 1..Len(transactionItemsTable) :
             transactionItemsTable'[k] = transactionItemsTable[k]
       /\ \A k \in (Len(transactionItemsTable) + 1)..Len(transactionItemsTable') :
             LET row == transactionItemsTable'[k] IN
             /\ response'.op = "createTransaction"
             /\ row.product_name = productsTable[row.product_id].name
             /\ row.unit_price = productsTable[row.product_id].selling_price]_vars

C18_Witness ==
    /\ Len(transactionItemsTable) = 1
    /\ LET row == transactionItemsTable[1] IN
       /\ row.product_name = "Test Product 1"
       /\ row.unit_price = 1500
       /\ productsTable[row.product_id].name = "Renamed Product"
       /\ productsTable[row.product_id].selling_price = 2000
       /\ productsTable[row.product_id].is_active = FALSE
       /\ productsTable[row.product_id].stock_quantity = MaxStock
    /\ transactionsTable[1].status = "cancelled"

(* C19: when two updateTransactionStatus(id, cancelled) calls run at the  *)
(* same time on one completed transaction, the stock of each product of    *)
(* the transaction is raised by the item's quantity exactly once, whatever *)
(* the interleaving: after both have returned every stock is what it was   *)
(* before the sale.  Stated as the claim states it; each call tests the    *)
(* status it read in its first statement, and the other call can commit    *)
(* between that statement and the restore.                                 *)
C19_ConcurrentCancelsRestoreOnce ==
    (\A c \in Clients :
        /\ sessions[c].pc = "returned"
        /\ sessions[c].status = "cancelled"
        /\ sessions[c].id = 1)
    => \A p \in ProductIds :
          productsTable[p].stock_quantity = Catalog[p].stock_quantity

(* C20: stock updates on one product behave as if one call ran after the   *)
(* other: when a createTransaction and a cancellation, or two              *)
(* createTransaction calls, run at the same time and all have returned,    *)
(* every product's stock is the stock before them less every quantity sold *)
(* plus every quantity restored.  Stated as the claim states it; a call    *)
(* writes the stock it read plus or minus its quantity, and the row it     *)
(* read can have been rewritten since.                                     *)
C20_NoStockUpdateLost ==
    (/\ \A c \in Clients : sessions[c].pc = "returned"
     /\ \E c \in Clients : sessions[c].status = "none")
    => \A p \in ProductIds :
          productsTable[p].stock_quantity =
              Catalog[p].stock_quantity
                  - SumQuantity(SelectItems(Database, 1), p)
                  + StockMoved(Clients, p)

(* C12: the discount_amount of every persisted transaction is its         *)
(* subtotal times its discount_percentage over 100, rounded to two         *)
(* decimals, for every discount_percentage from 0 to 100.  Stated as the   *)
(* claim states it; the handler forms the product and the quotient in      *)
(* doubles, and where the exact discount ends in half a cent the double    *)
(* can lie below it and the column rounds it down.                         *)
C12_DiscountIsRoundedShare ==
    \A k \in 1..Len(transactionsTable) :
        LET t == transactionsTable[k] IN
        t.discount_amount = ToNumeric2(t.subtotal * t.discount_percentage)

----------------------------------------------------------------------------
(* One createTransaction and one updateTransactionStatus, statement by     *)
(* statement, after one sale has been committed: client 1 sells a cart of  *)
(* one or two lines, client 2 sets a status.                               *)

\* the client that sells and the client that sets a status
Seller == CHOOSE c \in Clients : \A d \in Clients : c <= d
Clerk == CHOOSE c \in Clients : c # Seller

NextCalls ==
    \/ \E items \in ConcurrentCarts : BeginTransaction(Seller, items)
    \/ SelectProduct(Seller)
    \/ InsertTransaction(Seller, ConcurrentInput(sessions[Seller].items), Seller)
    \/ InsertItem(Seller)
    \/ SelectStock(Seller)
    \/ UpdateProductStock(Seller)
    \/ CommitTransaction(Seller)
    \/ \E id \in TransactionIds, status \in Statuses :
           BeginStatusUpdate(Clerk, id, status)
    \/ SelectCurrentTransaction(Clerk)
    \/ SelectItemsToRestore(Clerk)
    \/ SelectStockToRestore(Clerk)
    \/ RestoreProductStock(Clerk)
    \/ UpdateStatus(Clerk)
    \/ CommitStatusUpdate(Clerk)

SpecCalls == InitSold /\ [][NextCalls]_vars

\* the errors of the checks of the two handlers
CheckErrors == {"ProductNotFound", "InsufficientStock", "TransactionNotFound"}

(* C21: a failure of a check is found before the call has written         *)
(* anything: createTransaction throws ProductNotFound or InsufficientStock *)
(* for any line of the cart only while it has inserted no row, drawn no id *)
(* and updated no stock, and updateTransactionStatus throws                *)
(* TransactionNotFound only while it has updated no stock and no status.   *)
C21_ChecksBeforeWrites ==
    [][\A c \in Clients :
          (/\ sessions[c].pc # "threw"
           /\ sessions'[c].pc = "threw"
           /\ sessions'[c].result \in CheckErrors)
          => /\ sessions[c].pendingTransactions = <<>>
             /\ sessions[c].pendingItems = <<>>
             /\ sessions[c].pendingStock = <<>>
             /\ sessions[c].pendingStatus = <<>>
             /\ sessions[c].pc \in {"validate", "selectTransaction"}
             /\ sessions[c].pc = "validate" => sessions[c].id = 0]_vars

\* the second line of a cart of two was short after the first had passed, and
\* the status update named no transaction
C21_Witness ==
    /\ sessions[Seller].pc = "threw"
    /\ sessions[Seller].result = "InsufficientStock"
    /\ Len(sessions[Seller].items) = 2
    /\ Len(sessions[Seller].itemsData) = 1
    /\ sessions[Seller].id = 0
    /\ transactions_id_seq = 1
    /\ sessions[Clerk].pc = "threw"
    /\ sessions[Clerk].result = "TransactionNotFound"
    /\ sessions[Clerk].id = 2

----------------------------------------------------------------------------
(* getTodaySalesSummary and getMonthlyRevenue, with a clock that goes on:  *)
(* the time is counted in ticks, a day is DayLength ticks and a month is   *)
(* DaysInMonth days.  created_at is the time of the insert.                *)

DayLength == 2
DaysInMonth == 2
MonthLength == DaysInMonth * DayLength
MaxClock == MonthLength

\* sum(transactionsTable.total_amount)
RECURSIVE SumTotalAmount(_)
SumTotalAmount(rows) ==
    IF Len(rows) = 0 THEN 0
    ELSE Head(rows).total_amount + SumTotalAmount(Tail(rows))

\* where created_at >= from and created_at <= to, of any status
SelectBetween(db, from, to) ==
    SelectSeq(db.transactions,
              LAMBDA t : t.created_at >= from /\ t.created_at <= to)

\* where status = 'completed' and created_at >= from and created_at <= to
SelectCompletedBetween(db, from, to) ==
    SelectSeq(db.transactions,
              LAMBDA t : /\ t.status = "completed"
                         /\ t.created_at >= from
                         /\ t.created_at <= to)

\* getTodaySalesSummary with the test of the status left out
GetTodaySalesSummaryOfAnyStatus(db, at) ==
    LET today == at - (at % DayLength)
        tomorrow == today + DayLength
        rows == SelectBetween(db, today, tomorrow)
    IN [op |-> "getTodaySalesSummary",
        total_sales |-> ParseFloat(SumTotalAmount(rows)),
        total_transactions |-> Len(rows)]

GetTodaySalesSummary(db, at) ==
    LET today == at - (at % DayLength)
        tomorrow == today + DayLength
        rows == SelectCompletedBetween(db, today, tomorrow)
    IN [op |-> "getTodaySalesSummary",
        total_sales |-> ParseFloat(SumTotalAmount(rows)),
        total_transactions |-> Len(rows)]

GetMonthlyRevenue(db, at) ==
    LET firstDayOfMonth == at - (at % MonthLength)
        firstDayOfNextMonth == firstDayOfMonth + MonthLength
        rows == SelectCompletedBetween(db, firstDayOfMonth, firstDayOfNextMonth)
    IN [op |-> "getMonthlyRevenue",
        total_revenue |-> ParseFloat(SumTotalAmount(rows))]

getTodaySalesSummary ==
    /\ response' = GetTodaySalesSummary(Database, now)
    /\ UNCHANGED <<categoriesTable, productsTable, transactionsTable, transactionItemsTable,
                   transactions_id_seq, now, sessions>>

getMonthlyRevenue ==
    /\ response' = GetMonthlyRevenue(Database, now)
    /\ UNCHANGED <<categoriesTable, productsTable, transactionsTable, transactionItemsTable,
                   transactions_id_seq, now, sessions>>

\* the clock goes on
Tick ==
    /\ now < MaxClock
    /\ now' = now + 1
    /\ UNCHANGED <<categoriesTable, productsTable, transactionsTable, transactionItemsTable,
                   transactions_id_seq, response, sessions>>

\* the sales of one unit of a product
ReportInputs == {input \in CatalogInputs : input.items[1].quantity = 1}

NextReports ==
    \/ \E input \in ReportInputs : createTransaction(input, 1)
    \/ \E id \in 1..Len(transactionsTable), status \in Statuses :
          /\ transactionsTable[id].status = "completed"
          /\ updateTransactionStatus(id, status)
    \/ getTodaySalesSummary
    \/ getMonthlyRevenue
    \/ Tick

SpecReports == Init /\ [][NextReports]_vars

\* the day and the month a time lies in
DayOf(t) == t \div DayLength
MonthOf(t) == t \div MonthLength

\* the completed transactions among ks
CompletedAmong(ks) == {k \in ks : transactionsTable[k].status = "completed"}

RECURSIVE TotalOf(_)
TotalOf(ks) ==
    IF ks = {} THEN 0
    ELSE LET k == CHOOSE k \in ks : TRUE
         IN transactionsTable[k].total_amount + TotalOf(ks \ {k})

(* C22: getTodaySalesSummary returns as total_sales the sum of             *)
(* total_amount and as total_transactions the number of exactly the        *)
(* completed transactions created in the day of the call, and              *)
(* getMonthlyRevenue returns the sum of total_amount of exactly the        *)
(* completed transactions created in the month of the call; pending and    *)
(* cancelled transactions count for nothing.                               *)
C22_SummariesCountCompletedInWindow ==
    [][/\ (response' # response /\ response'.op = "getTodaySalesSummary")
          => LET ks == CompletedAmong(
                     {k \in 1..Len(transactionsTable) :
                         DayOf(transactionsTable[k].created_at) = DayOf(now)})
             IN /\ response'.total_sales = ParseFloat(TotalOf(ks))
                /\ response'.total_transactions = Cardinality(ks)
       /\ (response' # response /\ response'.op = "getMonthlyRevenue")
          => LET ks == CompletedAmong(
                     {k \in 1..Len(transactionsTable) :
                         MonthOf(transactionsTable[k].created_at) = MonthOf(now)})
             IN response'.total_revenue = ParseFloat(TotalOf(ks))]_vars

\* a summary of no sale, asked on a day with a cancelled sale, after a day
\* with a completed sale
C22_Witness ==
    /\ response.op = "getTodaySalesSummary"
    /\ response.total_transactions = 0
    /\ response.total_sales = 0
    /\ Len(transactionsTable) = 2
    /\ transactionsTable[1].status = "completed"
    /\ DayOf(transactionsTable[1].created_at) < DayOf(now)
    /\ transactionsTable[2].status = "cancelled"
    /\ DayOf(transactionsTable[2].created_at) = DayOf(now)

----------------------------------------------------------------------------
(* getTransactions.  The users table holds one user; createTransaction is  *)
(* called with the id of that user or with an id of no user, which it      *)
(* stores as it is.  A transaction_number is the pair of the time and the  *)
(* random part, and a pattern is found in it when its parts lie in it side *)
(* by side.  A date of a filter is a day, read as the day's first tick.    *)

\* the ids of the rows of usersTable
UsersTable == {1}

\* the userId of the calls of createTransaction
CallerIds == {1, 2}

DefaultPage == 1
DefaultLimit == 10

\* new Date(input.date_from)
NewDate(day) == day * DayLength

\* ilike(transaction_number, `%${pattern}%`)
ILike(number, pattern) ==
    \E from \in 0..(Len(number) - Len(pattern)) :
        \A k \in 1..Len(pattern) : number[from + k] = pattern[k]

\* if (input?.field), for a number: undefined and 0 are taken the same way
TruthyNumber(field) == field # Undefined /\ field[1] # 0

\* if (input?.field), for a string: undefined and '' are taken the same way
TruthyString(field) == field # Undefined /\ field[1] # <<>>

\* input?.field || otherwise
OrElse(field, otherwise) == IF TruthyNumber(field) THEN field[1] ELSE otherwise

\* and(...conditions)
Conditions(t, input) ==
    /\ TruthyString(input.transaction_number)
           => ILike(t.transaction_number, input.transaction_number[1])
    /\ TruthyNumber(input.user_id) => t.user_id = input.user_id[1]
    /\ input.status # Undefined => t.status = input.status[1]
    /\ input.date_from # Undefined => t.created_at >= NewDate(input.date_from[1])
    /\ input.date_to # Undefined => t.created_at <= NewDate(input.date_to[1])

\* from transactions inner join users on transactions.user_id = users.id
InnerJoinUsers(transactions) ==
    SelectSeq(transactions, LAMBDA t : t.user_id \in UsersTable)

\* order by created_at desc: the orders the database can return the rows in
OrderByCreatedAtDesc(rows) ==
    {sorted \in {[k \in 1..Len(rows) |-> rows[f[k]]] :
                    f \in Permutations(1..Len(rows))} :
        \A i, j \in 1..Len(rows) :
            i < j => sorted[i].created_at >= sorted[j].created_at}

\* limit(limit).offset(offset)
LimitOffset(rows, limit, offset) ==
    SubSeq(rows, offset + 1, IF offset + limit < Len(rows)
                             THEN offset + limit ELSE Len(rows))

\* Math.ceil(total / limit)
Ceil(total, limit) == (total + limit - 1) \div limit

\* order: the ids of the joined rows in the order the database returns them
GetTransactions(db, input, order) ==
    LET page == OrElse(input.page, DefaultPage)
        limit == OrElse(input.limit, DefaultLimit)
        offset == (page - 1) * limit
        joined == SelectSeq(InnerJoinUsers(db.transactions),
                            LAMBDA t : Conditions(t, input))
        sorted == CHOOSE s \in OrderByCreatedAtDesc(joined) :
                      \A k \in 1..Len(s) : s[k].id = order[k]
        total == Len(SelectSeq(db.transactions, LAMBDA t : Conditions(t, input)))
    IN [op |-> "getTransactions", input |-> input,
        transactions |-> LimitOffset(sorted, limit, offset),
        total |-> total, page |-> page, limit |-> limit,
        total_pages |-> Ceil(total, limit)]

\* the orders the rows of the query can come in, as sequences of ids
Orders(db, input) ==
    {[k \in 1..Len(s) |-> s[k].id] :
        s \in OrderByCreatedAtDesc(
                  SelectSeq(InnerJoinUsers(db.transactions),
                            LAMBDA t : Conditions(t, input)))}

getTransactions(input) ==
    /\ \E order \in Orders(Database, input) :
          response' = GetTransactions(Database, input, order)
    /\ UNCHANGED <<categoriesTable, productsTable, transactionsTable, transactionItemsTable,
                   transactions_id_seq, now, sessions>>

\* the two dates are given together, and so are the page and the limit
SearchInputs ==
    {input \in [transaction_number : {Undefined, << <<1>> >>},
                user_id : {Undefined, <<0>>, <<1>>},
                status : {Undefined, <<"completed">>},
                date_from : {Undefined, <<1>>},
                date_to : {Undefined, <<1>>},
                page : {Undefined, <<2>>},
                limit : {Undefined, <<1>>}] :
        /\ input.date_from = Undefined <=> input.date_to = Undefined
        /\ input.page = Undefined <=> input.limit = Undefined}

\* the sales of one unit of product 1
SearchedInputs == {input \in ReportInputs : input.items[1].product_id = 1}

NextSearch ==
    \/ \E input \in SearchedInputs, userId \in CallerIds :
           createTransaction(input, userId)
    \/ \E id \in 1..Len(transactionsTable) :
          /\ transactionsTable[id].status = "completed"
          /\ updateTransactionStatus(id, "cancelled")
    \/ now < DayLength /\ Tick
    \/ \E input \in SearchInputs : getTransactions(input)

SpecSearch == Init /\ [][NextSearch]_vars

\* transaction t passes every filter that the input supplies
SatisfiesFilters(t, input) ==
    /\ input.transaction_number # Undefined
           => ILike(t.transaction_number, input.transaction_number[1])
    /\ input.user_id # Undefined => t.user_id = input.user_id[1]
    /\ input.status # Undefined => t.status = input.status[1]
    /\ input.date_from # Undefined => t.created_at >= NewDate(input.date_from[1])
    /\ input.date_to # Undefined => t.created_at <= NewDate(input.date_to[1])

\* the limit of a call: the one supplied, or the default
LimitOf(input) == IF input.limit = Undefined THEN DefaultLimit ELSE input.limit[1]

(* C23: getTransactions with page p and limit l returns at most l          *)
(* transactions, all of which satisfy every supplied filter (status exact, *)
(* user_id exact, transaction_number substring, created_at range), ordered *)
(* newest first, with total the number of matching transactions and        *)
(* total_pages = ceil(total / l).  Stated as the claim states it; the      *)
(* handler applies a filter only if its value is truthy, and user_id 0 is  *)
(* not.                                                                    *)
C23_PageSatisfiesFilters ==
    [][(response' # response /\ response'.op = "getTransactions")
       => LET input == response'.input
              l == LimitOf(input)
              found == response'.transactions
              matching == {k \in 1..Len(transactionsTable) :
                              SatisfiesFilters(transactionsTable[k], input)}
          IN /\ Len(found) <= l
             /\ \A k \in 1..Len(found) : SatisfiesFilters(found[k], input)
             /\ \A i, j \in 1..Len(found) :
                    i < j => found[i].created_at >= found[j].created_at
             /\ response'.total = Cardinality(matching)
             /\ response'.total_pages * l >= response'.total
             /\ (response'.total_pages - 1) * l < response'.total]_vars

\* the transactions of the pages 1..total_pages of one search, as ids
RECURSIVE PagesOf(_, _, _, _)
PagesOf(db, input, order, p) ==
    IF p = 0 THEN <<>>
    ELSE PagesOf(db, input, order, p - 1)
         \o GetTransactions(db, [input EXCEPT !.page = <<p>>], order).transactions

(* C28: for every filter and limit, the transactions that getTransactions  *)
(* returns over the pages 1..total_pages are exactly total distinct        *)
(* transactions, also for transactions whose user_id is the id of no user. *)
(* Stated as the claim states it; the rows are read through an inner join  *)
(* on users and the total is counted without it.                           *)
C28_PagesEnumerateTotal ==
    \A input \in SearchInputs :
        \A order \in Orders(Database, input) :
            LET first == GetTransactions(Database, input, order)
                listed == PagesOf(Database, input, order, first.total_pages)
            IN /\ Len(listed) = first.total
               /\ Cardinality({listed[k].id : k \in 1..Len(listed)}) = first.total

----------------------------------------------------------------------------
(* The catalogue: createProduct and updateProduct statement by statement,  *)
(* and the handlers of the categories.  The handlers run their statements  *)
(* on db, each committed on its own, with no transaction around them.  The *)
(* tables are sequences: the row of id k is the k-th, no row is removed.   *)

Null == <<>>
NoSuchCategory == 999
Barcodes == {"TEST123", "TEST456"}

MaxProducts == Cardinality(ProductIds)
MaxCategories == Cardinality(ProductIds)
CategoryIds == 1..MaxCategories

\* a client with no call of the catalogue in flight
IdleCall == [pc |-> "idle", op |-> "none", input |-> [id |-> 0], result |-> "none"]

\* the places where a client has no call in flight
Resting == {"idle", "returned", "threw"}

\* the creates that have not inserted their row yet
CreatesInFlight ==
    {c \in Clients : sessions[c].op = "createProduct"
                     /\ sessions[c].pc \notin Resting}

Enter(c, op, pc, input) ==
    /\ sessions[c].pc \in Resting
    /\ sessions' = [sessions EXCEPT ![c] =
           [pc |-> pc, op |-> op, input |-> input, result |-> "none"]]
    /\ UNCHANGED <<productsTable, categoriesTable, transactionsTable,
                   transactionItemsTable, transactions_id_seq, now, response>>

Goto(c, pc) == [sessions EXCEPT ![c].pc = pc]
Throw(c, error) == [sessions EXCEPT ![c].pc = "threw", ![c].result = error]
Return(c, result) == [sessions EXCEPT ![c].pc = "returned", ![c].result = result]

\* if (input.barcode): null, undefined and '' are taken the same way
TruthyBarcode(barcode) == barcode # Null /\ barcode # <<"">>

\* select from categories where id = ...
SelectCategoryById(categories, id) ==
    SelectSeq(categories, LAMBDA row : row.id = id)

\* select from products where barcode = ...
SelectByBarcode(products, barcode) ==
    SelectSeq(products, LAMBDA row : row.barcode = barcode)

\* createProduct is called
BeginCreateProduct(c, input) ==
    /\ Len(productsTable) + Cardinality(CreatesInFlight) < MaxProducts
    /\ Enter(c, "createProduct", "selectCategory", input)

\* createProduct: the select of the category
SelectCategory(c) ==
    LET s == sessions[c] IN
    /\ s.pc = "selectCategory"
    /\ sessions' =
           IF Len(SelectCategoryById(categoriesTable, s.input.category_id)) = 0
           THEN Throw(c, "CategoryNotFound")
           ELSE Goto(c, IF TruthyBarcode(s.input.barcode)
                        THEN "selectBarcode" ELSE "insertProduct")
    /\ UNCHANGED <<productsTable, categoriesTable, transactionsTable,
                   transactionItemsTable, transactions_id_seq, now, response>>

\* createProduct: the select of the products that have the barcode
SelectBarcode(c) ==
    LET s == sessions[c] IN
    /\ s.pc = "selectBarcode"
    /\ sessions' =
           IF Len(SelectByBarcode(productsTable, s.input.barcode)) > 0
           THEN Throw(c, "BarcodeExists")
           ELSE Goto(c, "insertProduct")
    /\ UNCHANGED <<productsTable, categoriesTable, transactionsTable,
                   transactionItemsTable, transactions_id_seq, now, response>>

\* createProduct: the insert
InsertProduct(c) ==
    LET s == sessions[c]
        row == [id |-> Len(productsTable) + 1,
                name |-> s.input.name,
                barcode |-> s.input.barcode,
                category_id |-> s.input.category_id,
                is_active |-> TRUE]
    IN /\ s.pc = "insertProduct"
       /\ productsTable' = Append(productsTable, row)
       /\ sessions' = Return(c, "ok")
       /\ UNCHANGED <<categoriesTable, transactionsTable,
                      transactionItemsTable, transactions_id_seq, now, response>>

\* updateProduct is called
BeginUpdateProduct(c, input) ==
    Enter(c, "updateProduct", "selectExisting", input)

\* where updateProduct goes on after a check: the checks the input asks for
AfterExisting(input) ==
    IF input.category_id # Undefined /\ input.category_id[1] # 0
    THEN "selectNewCategory"
    ELSE IF input.barcode # Undefined /\ TruthyBarcode(input.barcode[1])
         THEN "selectBarcodeConflict" ELSE "writeProduct"

AfterNewCategory(input) ==
    IF input.barcode # Undefined /\ TruthyBarcode(input.barcode[1])
    THEN "selectBarcodeConflict" ELSE "writeProduct"

\* updateProduct: the select of the product
SelectExistingProduct(c) ==
    LET s == sessions[c] IN
    /\ s.pc = "selectExisting"
    /\ sessions' = IF s.input.id \notin DOMAIN productsTable
                   THEN Throw(c, "ProductNotFound")
                   ELSE Goto(c, AfterExisting(s.input))
    /\ UNCHANGED <<productsTable, categoriesTable, transactionsTable,
                   transactionItemsTable, transactions_id_seq, now, response>>

\* updateProduct: the select of the category
SelectNewCategory(c) ==
    LET s == sessions[c] IN
    /\ s.pc = "selectNewCategory"
    /\ sessions' =
           IF Len(SelectCategoryById(categoriesTable, s.input.category_id[1])) = 0
           THEN Throw(c, "CategoryNotFound")
           ELSE Goto(c, AfterNewCategory(s.input))
    /\ UNCHANGED <<productsTable, categoriesTable, transactionsTable,
                   transactionItemsTable, transactions_id_seq, now, response>>

\* updateProduct: the select of the products that have the barcode; the
\* first row of the result is any of them
SelectBarcodeConflict(c) ==
    LET s == sessions[c]
        barcodeConflict == SelectByBarcode(productsTable, s.input.barcode[1])
    IN /\ s.pc = "selectBarcodeConflict"
       /\ \/ /\ Len(barcodeConflict) = 0
             /\ sessions' = Goto(c, "writeProduct")
          \/ \E first \in 1..Len(barcodeConflict) :
                sessions' = IF barcodeConflict[first].id # s.input.id
                            THEN Throw(c, "BarcodeExists")
                            ELSE Goto(c, "writeProduct")
       /\ UNCHANGED <<productsTable, categoriesTable, transactionsTable,
                      transactionItemsTable, transactions_id_seq, now, response>>

\* updateProduct: the update of the fields the input gives
WriteProduct(c) ==
    LET s == sessions[c]
        existing == productsTable[s.input.id]
        row == [existing EXCEPT
                   !.name = Given(s.input, "name", existing.name),
                   !.barcode = Given(s.input, "barcode", existing.barcode),
                   !.category_id = Given(s.input, "category_id", existing.category_id),
                   !.is_active = Given(s.input, "is_active", existing.is_active)]
    IN /\ s.pc = "writeProduct"
       /\ productsTable' = [productsTable EXCEPT ![s.input.id] = row]
       /\ sessions' = Return(c, "ok")
       /\ UNCHANGED <<categoriesTable, transactionsTable,
                      transactionItemsTable, transactions_id_seq, now, response>>

\* the state after createTestCategory: one category, no product
InitCatalogue ==
    /\ productsTable = <<>>
    /\ categoriesTable = Categories
    /\ transactionsTable = <<>>
    /\ transactionItemsTable = <<>>
    /\ transactions_id_seq = 0
    /\ now = 0
    /\ response = NoResponse
    /\ sessions = [c \in Clients |-> IdleCall]

BarcodeCreateInputs ==
    [name : {"Test Product"}, barcode : {Null} \cup {<<b>> : b \in Barcodes},
     category_id : {1, NoSuchCategory}]

BarcodeUpdateInputs ==
    [id : 1..MaxProducts \cup {NoSuchProduct},
     name : {Undefined},
     barcode : {Undefined} \cup {<< <<b>> >> : b \in Barcodes},
     category_id : {Undefined, <<1>>, <<NoSuchCategory>>},
     is_active : {Undefined}]

NextBarcodes ==
    \E c \in Clients :
        \/ \E input \in BarcodeCreateInputs : BeginCreateProduct(c, input)
        \/ SelectCategory(c)
        \/ SelectBarcode(c)
        \/ InsertProduct(c)
        \/ \E input \in BarcodeUpdateInputs : BeginUpdateProduct(c, input)
        \/ SelectExistingProduct(c)
        \/ SelectNewCategory(c)
        \/ SelectBarcodeConflict(c)
        \/ WriteProduct(c)

SpecBarcodes == InitCatalogue /\ [][NextBarcodes]_vars

\* the products other than id that have the barcode
OthersWithBarcode(id, barcode) ==
    {k \in DOMAIN productsTable : k # id /\ productsTable[k].barcode = barcode}

(* C24: in every sequence and interleaving of createProduct and            *)
(* updateProduct calls no two products have the same non-null barcode; a   *)
(* create or an update that would make a duplicate is rejected and changes *)
(* nothing, and the update of a product to its own barcode is accepted.    *)
(* Stated as the claim states it; a handler reads the products with the    *)
(* barcode and writes its row in two statements, with no transaction and   *)
(* no unique index to hold them together.                                  *)
C24_BarcodesUnique ==
    /\ [](\A i, j \in DOMAIN productsTable :
             (i # j /\ productsTable[i].barcode # Null)
             => productsTable[i].barcode # productsTable[j].barcode)
    /\ [][\A c \in Clients :
             /\ (sessions'[c].pc = "threw" /\ sessions[c].pc # "threw")
                => productsTable' = productsTable
             /\ (/\ sessions[c].pc = "selectBarcodeConflict"
                 /\ sessions'[c] # sessions[c]
                 /\ OthersWithBarcode(sessions[c].input.id,
                                      sessions[c].input.barcode[1]) = {})
                => sessions'[c].pc = "writeProduct"]_vars

----------------------------------------------------------------------------
(* The handlers of the categories, and the catalogue handlers called one   *)
(* at a time by one client.                                                *)

\* createCategory: the insert
createCategory(c, input) ==
    /\ sessions[c].pc \in Resting
    /\ Len(categoriesTable) < MaxCategories
    /\ categoriesTable' = Append(categoriesTable,
           [id |-> Len(categoriesTable) + 1, name |-> input.name,
            is_active |-> TRUE])
    /\ sessions' = [sessions EXCEPT ![c] =
           [pc |-> "returned", op |-> "createCategory", input |-> input,
            result |-> "ok"]]
    /\ UNCHANGED <<productsTable, transactionsTable, transactionItemsTable,
                   transactions_id_seq, now, response>>

\* updateCategory is called
BeginUpdateCategory(c, input) ==
    Enter(c, "updateCategory", "selectExistingCategory", input)

\* updateCategory: the select of the category
SelectExistingCategory(c) ==
    LET s == sessions[c] IN
    /\ s.pc = "selectExistingCategory"
    /\ sessions' = IF Len(SelectCategoryById(categoriesTable, s.input.id)) = 0
                   THEN Throw(c, "CategoryNotFound")
                   ELSE Goto(c, "writeCategory")
    /\ UNCHANGED <<productsTable, categoriesTable, transactionsTable,
                   transactionItemsTable, transactions_id_seq, now, response>>

\* updateCategory: the update of the fields the input gives
WriteCategory(c) ==
    LET s == sessions[c]
        existing == categoriesTable[s.input.id]
    IN /\ s.pc = "writeCategory"
       /\ categoriesTable' = [categoriesTable EXCEPT ![s.input.id] =
              [existing EXCEPT
                  !.name = Given(s.input, "name", existing.name),
                  !.is_active = Given(s.input, "is_active", existing.is_active)]]
       /\ sessions' = Return(c, "ok")
       /\ UNCHANGED <<productsTable, transactionsTable, transactionItemsTable,
                      transactions_id_seq, now, response>>

\* deleteCategory is called
BeginDeleteCategory(c, id) ==
    Enter(c, "deleteCategory", "selectCategoryToDelete", [id |-> id])

\* deleteCategory: the select of the category
SelectCategoryToDelete(c) ==
    LET s == sessions[c] IN
    /\ s.pc = "selectCategoryToDelete"
    /\ sessions' = IF Len(SelectCategoryById(categoriesTable, s.input.id)) = 0
                   THEN Throw(c, "CategoryNotFound")
                   ELSE Goto(c, "countProducts")
    /\ UNCHANGED <<productsTable, categoriesTable, transactionsTable,
                   transactionItemsTable, transactions_id_seq, now, response>>

\* select count(*) from products where category_id = ... and is_active
ProductsUsingCategory(products, id) ==
    SelectSeq(products, LAMBDA row : row.category_id = id /\ row.is_active)

\* deleteCategory: the count of the active products that use the category
CountProductsUsingCategory(c) ==
    LET s == sessions[c] IN
    /\ s.pc = "countProducts"
    /\ sessions' = IF Len(ProductsUsingCategory(productsTable, s.input.id)) > 0
                   THEN Throw(c, "CategoryInUse")
                   ELSE Goto(c, "deactivateCategory")
    /\ UNCHANGED <<productsTable, categoriesTable, transactionsTable,
                   transactionItemsTable, transactions_id_seq, now, response>>

\* deleteCategory: the update that sets is_active to false
DeactivateCategory(c) ==
    LET s == sessions[c] IN
    /\ s.pc = "deactivateCategory"
    /\ categoriesTable' = [categoriesTable EXCEPT ![s.input.id].is_active = FALSE]
    /\ sessions' = Return(c, "true")
    /\ UNCHANGED <<productsTable, transactionsTable, transactionItemsTable,
                   transactions_id_seq, now, response>>

CategoryCreateInputs == [name : {"Test Category"}]

CategoryUpdateInputs ==
    [id : CategoryIds \cup {NoSuchCategory},
     name : {Undefined},
     is_active : {Undefined, <<TRUE>>, <<FALSE>>}]

ProductCreateInputs ==
    [name : {"Test Product"}, barcode : {Null},
     category_id : CategoryIds \cup {NoSuchCategory}]

ProductUpdateInputs ==
    [id : 1..MaxProducts \cup {NoSuchProduct},
     name : {Undefined},
     barcode : {Undefined},
     category_id : {Undefined} \cup {<<id>> : id \in CategoryIds},
     is_active : {Undefined, <<TRUE>>}]

\* the client has no call in flight: the calls run one after the other
NextCategories ==
    \/ \E input \in CategoryCreateInputs : createCategory(Seller, input)
    \/ \E input \in CategoryUpdateInputs : BeginUpdateCategory(Seller, input)
    \/ SelectExistingCategory(Seller)
    \/ WriteCategory(Seller)
    \/ \E id \in CategoryIds \cup {NoSuchCategory} : BeginDeleteCategory(Seller, id)
    \/ SelectCategoryToDelete(Seller)
    \/ CountProductsUsingCategory(Seller)
    \/ DeactivateCategory(Seller)
    \/ \E input \in ProductCreateInputs : BeginCreateProduct(Seller, input)
    \/ SelectCategory(Seller)
    \/ InsertProduct(Seller)
    \/ \E input \in ProductUpdateInputs : BeginUpdateProduct(Seller, input)
    \/ SelectExistingProduct(Seller)
    \/ SelectNewCategory(Seller)
    \/ WriteProduct(Seller)
    \/ \E id \in 1..MaxProducts \cup {NoSuchProduct} :
          sessions[Seller].pc \in Resting /\ deleteProduct(id)

SpecCategories == InitCatalogue /\ [][NextCategories]_vars

\* the category of id is a row and is active
ActiveCategory(id) ==
    id \in DOMAIN categoriesTable /\ categoriesTable[id].is_active

(* C29: in every state reachable by createCategory, updateCategory,        *)
(* deleteCategory, createProduct, updateProduct and deleteProduct, no      *)
(* active product references a category that is inactive or does not       *)
(* exist, and deleteCategory is rejected while an active product uses the  *)
(* category.  Stated as the claim states it; only deleteCategory looks at  *)
(* the products of a category, and updateCategory sets is_active as the    *)
(* input gives it.                                                         *)
C29_ActiveProductsHaveActiveCategory ==
    /\ [](\A k \in DOMAIN productsTable :
             productsTable[k].is_active
             => ActiveCategory(productsTable[k].category_id))
    /\ [][\A id \in DOMAIN categoriesTable :
             (/\ sessions'[Seller].op = "deleteCategory"
              /\ categoriesTable[id].is_active
              /\ ~categoriesTable'[id].is_active)
             => \A k \in DOMAIN productsTable :
                    ~(productsTable[k].is_active
                      /\ productsTable[k].category_id = id)]_vars

----------------------------------------------------------------------------
\* getProductById: the row of the id if it is active, else null
GetProductById(db, id) ==
    IF id \in DOMAIN db.products /\ db.products[id].is_active
    THEN <<db.products[id]>> ELSE <<>>

(* C27: createTransaction takes a soft-deleted product (is_active false)   *)
(* as not found, as getProductById does: a cart that names one fails with  *)
(* ProductNotFound, so no createTransaction sells an item of a product     *)
(* that getProductById does not return, and none lowers the stock of an    *)
(* inactive product.  Stated as the claim states it; the handler selects   *)
(* the product by its id alone.                                            *)
C27_InactiveProductIsNotFound ==
    [][(response' # response /\ response'.op = "createTransaction")
       => /\ \A k \in (Len(transactionItemsTable) + 1)..Len(transactionItemsTable') :
                 GetProductById(Database, transactionItemsTable'[k].product_id) # <<>>
          /\ \A p \in ProductIds :
                 ~productsTable[p].is_active
                 => productsTable'[p].stock_quantity
                        >= productsTable[p].stock_quantity]_vars

----------------------------------------------------------------------------
(* C25: the stock of a transaction is restored at most once over its life: *)
(* through any sequence of updateTransactionStatus calls, the sequence     *)
(* cancelled -> completed -> cancelled among them, and with no edit of the *)
(* stock in the catalog, no product's stock ever exceeds what it was       *)
(* before the transaction was created, so never the stock before any sale. *)
(* Stated as the claim states it; each completed -> cancelled restores,    *)
(* and cancelled -> completed takes nothing back.                          *)
C25_StockRestoredAtMostOnce ==
    \A p \in ProductIds :
        productsTable[p].stock_quantity <= Catalog[p].stock_quantity

\* the item rows of the transactions that are not cancelled
ItemsNotCancelled ==
    SelectSeq(transactionItemsTable,
              LAMBDA row : StatusOf(row.transaction_id) # "cancelled")

(* C26: stock is conserved: in every state reached by createTransaction    *)
(* and updateTransactionStatus alone, the stock_quantity of a product plus *)
(* the quantities of its items over all transactions whose status is not   *)
(* cancelled is the product's initial stock.  Stated as the claim states   *)
(* it; a cancelled transaction set back to completed or pending counts     *)
(* again and its stock is not taken again.                                 *)
C26_StockConserved ==
    \A p \in ProductIds :
        productsTable[p].stock_quantity + SumQuantity(ItemsNotCancelled, p)
            = Catalog[p].stock_quantity

(* C30: every persisted transaction has 0 <= discount_amount <= subtotal,  *)
(* total_amount >= 0 and change_amount >= 0, for every cart, discount and  *)
(* payment that the request schema accepts.                                *)
C30_AmountsInRange ==
    \A k \in 1..Len(transactionsTable) :
        LET t == transactionsTable[k] IN
        /\ 0 <= t.discount_amount
        /\ t.discount_amount <= t.subtotal
        /\ t.total_amount >= 0
        /\ t.change_amount >= 0

\* a sale at full discount, and a sale paid with less than its total
C30_Witness ==
    /\ Len(transactionsTable) = 1
    /\ transactionsTable[1].subtotal > 0
    /\ transactionsTable[1].payment_amount < transactionsTable[1].total_amount
    /\ transactionsTable[1].discount_amount > 0
    /\ transactionsTable[1].change_amount = 0

====
